---- MODULE Spec2Model ----
(***************************************************************************)
(* A model of the real-time signal path core of nih-plug:                  *)
(*   - the parameter Smoother            (src/src/param/smoothing.rs)      *)
(*   - the Buffer sample iterators       (src/src/buffer.rs)               *)
(*   - the VST3 wrapper                  (src/src/wrapper/vst3.rs)         *)
(*                                                                         *)
(* Single precision floating point is modelled by a binary floating point  *)
(* format of the same shape with a reduced width: PrecBits significand     *)
(* bits, a smallest quantum of 2^-FracBits, round to nearest (ties to      *)
(* even), overflow to infinity, and the IEEE special values inf and NaN.   *)
(* A finite value is kept as the integer number of quanta it holds.  The   *)
(* sign of zero is not modelled (every zero is +0).                        *)
(***************************************************************************)
EXTENDS Integers, Sequences, FiniteSets, TLC

VARIABLES
    \* ---- Smoother<T> (smoothing.rs:40-53) ----
    kind,        \* the type parameter T: "f32" or "i32"
    style,       \* SmoothingStyle
    steps_left,  \* AtomicU32, kept as its 32-bit pattern read as a signed number
    step_size,   \* f32
    current,     \* AtomicF32
    target,      \* T
    host_sample_rate, \* the sample rate of the host's processing setup, which
                      \* every set_target is given
    \* ---- what the caller of the smoother has seen ----
    op,          \* the last call made: "new", "reset", "set_target", "next"
    arg,         \* the value argument of the last reset or set_target
    last_ret,    \* the value returned by the last next()
    installed,   \* the step count the last set_target installed (-1: none since reset)
    since,       \* the number of next() calls since the last set_target
    from,        \* the current value the last set_target read
    base,        \* the value next() returned last before the last set_target
    exact,       \* no operation of the running ramp has rounded
    \* ---- two threads on one smoother (SpecRace) ----
    rt,          \* the real-time thread inside next()
    ctl,         \* the control thread inside set_target()
    \* ---- Buffer, Samples, Channels (buffer.rs) ----
    output_slices, \* Buffer::output_slices: the length of each channel slice
    samples,       \* the Samples iterator of the pass over the buffer
    cursors,       \* the Channels handed out by Samples::next, in order
    yielded,       \* the number of sample references handed out
    panicked,      \* an index out of bounds panic has unwound the pass
    \* ---- the VST3 wrapper (wrapper/vst3.rs); its output_buffer is the Buffer ----
    current_bus_config,    \* BusConfig
    current_buffer_config, \* Option<BufferConfig>
    is_processing,         \* AtomicBool
    last_process_status,   \* ProcessStatus
    bypass_state,          \* AtomicBool
    params,                \* the declared parameters, by identifier
    fields,                \* the plugin's persistent fields
    stream,                \* the IBStream the host keeps the saved state in
    call,                  \* the last call of the host and what came of it
    output_ptrs,           \* where each slot of output_buffer points (0: `&mut []`)
    input_events,          \* VecDeque<NoteEvent>
    ACCEPTS_MIDI,          \* Plugin::ACCEPTS_MIDI of the plugin wrapped
    in_flight,             \* the real-time thread is inside the plugin's process
    \* ---- the conversions of util.rs ----
    util_call,             \* the last call of db_to_gain / gain_to_db and the one before
    \* ---- a set_param_normalized call under way on the control thread ----
    setter,                \* its position and its arguments
    \* ---- the Vu plugin (plugins/examples/vu/src/lib.rs) ----
    vu                     \* its history, sums and history_len fields, and its last hook

smoother_vars == <<kind, style, steps_left, step_size, current, target, host_sample_rate>>
caller_vars == <<op, arg, last_ret, installed, since, from, base, exact>>
race_vars == <<rt, ctl>>
buffer_vars == <<output_slices, samples, cursors, yielded, panicked>>
adapter_vars ==
    <<current_bus_config, current_buffer_config, is_processing,
      last_process_status, bypass_state, params, fields, stream, call,
      output_ptrs, input_events, ACCEPTS_MIDI, in_flight, util_call, setter, vu>>
midi_vars == <<input_events, ACCEPTS_MIDI>>
\* What no method of the Wrapper reads or writes
aside_vars == <<util_call, setter, vu>>
vars == <<smoother_vars, caller_vars, race_vars, buffer_vars, adapter_vars>>

(***************************************************************************)
(* The floating point format.                                              *)
(***************************************************************************)
PrecBits == 5
FracBits == 2
MaxExp == 3

RECURSIVE Pow2(_)
Pow2(n) == IF n <= 0 THEN 1 ELSE 2 * Pow2(n - 1)

One == Pow2(FracBits)
MaxFinite == (Pow2(PrecBits) - 1) * Pow2(MaxExp)

Abs(n) == IF n < 0 THEN -n ELSE n
Sign(n) == IF n < 0 THEN -1 ELSE IF n > 0 THEN 1 ELSE 0
Min(a, b) == IF a < b THEN a ELSE b
Max(a, b) == IF a > b THEN a ELSE b

Fin(n) == [cls |-> "fin", v |-> n]
Inf(s) == [cls |-> "inf", v |-> s]
NaN == [cls |-> "nan", v |-> 0]
I32(n) == [cls |-> "i32", v |-> n]
NoValue == [cls |-> "none", v |-> 0]

Zero == Fin(0)
IsFin(a) == a.cls = "fin"
IsNaN(a) == a.cls = "nan"

\* The exponent of the quotient a / d: the number of times it must be halved to
\* fit PrecBits bits.
RECURSIVE ExpOf(_, _)
ExpOf(a, d) == IF a < d * Pow2(PrecBits) THEN 0 ELSE 1 + ExpOf(a, 2 * d)

\* a / d rounded to an integer, ties to even (a >= 0, d > 0)
RoundHalfEven(a, d) ==
    LET q == a \div d
        r == a % d
    IN  IF 2 * r < d THEN q
        ELSE IF 2 * r > d THEN q + 1
        ELSE IF q % 2 = 0 THEN q ELSE q + 1

\* The float nearest to the rational num / den quanta (den > 0)
FRound(num, den) ==
    LET a == Abs(num)
        e == ExpOf(a, den)
        m == RoundHalfEven(a, den * Pow2(e))
        v == m * Pow2(e)
    IN  IF v > MaxFinite THEN Inf(Sign(num)) ELSE Fin(Sign(num) * v)

\* `n as f32` for an integer n
FromInt(n) == FRound(n * One, 1)

FNeg(a) == IF IsNaN(a) THEN NaN ELSE [a EXCEPT !.v = -a.v]

FAdd(a, b) ==
    IF IsNaN(a) \/ IsNaN(b) THEN NaN
    ELSE IF IsFin(a) /\ IsFin(b) THEN FRound(a.v + b.v, 1)
    ELSE IF IsFin(a) THEN b
    ELSE IF IsFin(b) THEN a
    ELSE IF a.v = b.v THEN a ELSE NaN

FSub(a, b) == FAdd(a, FNeg(b))

FMul(a, b) ==
    IF IsNaN(a) \/ IsNaN(b) THEN NaN
    ELSE IF IsFin(a) /\ IsFin(b) THEN FRound(a.v * b.v, One)
    ELSE IF a.v = 0 \/ b.v = 0 THEN NaN
    ELSE Inf(Sign(a.v) * Sign(b.v))

FDiv(a, b) ==
    IF IsNaN(a) \/ IsNaN(b) THEN NaN
    ELSE IF IsFin(a) /\ IsFin(b) THEN
        IF b.v = 0 THEN (IF a.v = 0 THEN NaN ELSE Inf(Sign(a.v)))
        ELSE FRound(Sign(b.v) * a.v * One, Abs(b.v))
    ELSE IF IsFin(a) THEN Zero
    ELSE IF IsFin(b) THEN Inf(a.v * (IF b.v < 0 THEN -1 ELSE 1))
    ELSE NaN

\* a <= x <= b or b <= x <= a, for finite floats
Between(a, x, b) ==
    /\ IsFin(a) /\ IsFin(x) /\ IsFin(b)
    /\ Min(a.v, b.v) <= x.v
    /\ x.v <= Max(a.v, b.v)

\* The == of f32: NaN equals nothing
FEq(a, b) == ~IsNaN(a) /\ ~IsNaN(b) /\ a = b

\* b^n, or some number above cap when b^n > cap (keeps the arithmetic small)
RECURSIVE PowSat(_, _, _)
PowSat(b, n, cap) ==
    IF n = 0 THEN 1
    ELSE LET p == PowSat(b, n - 1, cap) IN IF p > cap THEN p ELSE p * b

\* The greatest r in lo..hi with r^n <= rhs
RECURSIVE FloorRoot(_, _, _, _)
FloorRoot(rhs, n, lo, hi) ==
    IF lo >= hi THEN lo
    ELSE LET mid == (lo + hi + 1) \div 2
         IN  IF PowSat(mid, n, rhs) <= rhs THEN FloorRoot(rhs, n, mid, hi)
             ELSE FloorRoot(rhs, n, lo, mid - 1)

\* The float nearest to the n-th root of the finite float x > 0 (n >= 1)
FRoot(x, n) ==
    LET rhs == x * Pow2(FracBits * (n - 1))
        lo == FloorRoot(rhs, n, 0, Max(x, One))
        up == PowSat(2 * lo + 1, n, Pow2(n) * rhs) <= Pow2(n) * rhs
    IN  FRound(IF up THEN lo + 1 ELSE lo, 1)

\* x.powf((n as f32).recip()) for a step count n: powf(x, 1/n), and powf(x, inf)
\* when n is 0
FPowRecip(x, n) ==
    IF IsNaN(x) THEN NaN
    ELSE IF n = 0 THEN
        (IF IsFin(x) /\ Abs(x.v) = One THEN Fin(One)
         ELSE IF IsFin(x) /\ Abs(x.v) < One THEN Zero
         ELSE Inf(1))
    ELSE IF n = 1 THEN x
    ELSE IF ~IsFin(x) THEN Inf(1)
    ELSE IF x.v = 0 THEN Zero
    ELSE IF x.v < 0 THEN NaN
    ELSE FRoot(x.v, n)

I32Max == 2147483647

\* x.round() of an f32 (half away from zero) followed by `as` to an integer type
\* with the given least and greatest values (saturating, NaN to 0)
RoundToInt(x, least, greatest) ==
    IF IsNaN(x) THEN 0
    ELSE IF ~IsFin(x) THEN (IF x.v > 0 THEN greatest ELSE least)
    ELSE LET a == Abs(x.v)
             r == (2 * a + One) \div (2 * One)
         IN  Max(least, Min(greatest, Sign(x.v) * r))


(***************************************************************************)
(* The Smoother, one call at a time (Spec).                                *)
(***************************************************************************)
NoneStyle == [name |-> "None", time |-> 0]
Linear(ms) == [name |-> "Linear", time |-> ms]
Logarithmic(ms) == [name |-> "Logarithmic", time |-> ms]

\* The styles, sample rates and values the callers use.  The durations and rates
\* are small integers for which sample_rate * time / 1000.0 is computed without
\* rounding in f32.
LinearTimes == {10, 20, 100}
LogarithmicTimes == {10, 30}
Styles ==
    {NoneStyle} \cup {Linear(ms) : ms \in LinearTimes}
                \cup {Logarithmic(ms) : ms \in LogarithmicTimes}
SampleRates == {25, 100}
F32Values == {FromInt(u) : u \in {0, 10, 20, 34, 36}}
I32Values == {I32(n) : n \in {0, 10, 20}}
Values(k) == IF k = "i32" THEN I32Values ELSE F32Values

\* `value as f32` where T is i32, the value itself where T is f32
AsF32(t) == IF t.cls = "i32" THEN FromInt(t.v) ELSE t

\* What next() hands back for the new current value: `new` for f32,
\* `new.round() as i32` for i32
AsT(k, new) ==
    IF k = "i32" THEN I32(RoundToInt(new, -I32Max - 1, I32Max)) ELSE new

\* The == of T
TEq(a, b) == IF a.cls = "i32" \/ b.cls = "i32" THEN a = b ELSE FEq(a, b)

\* (sample_rate * time / 1000.0).round() as u32
RoundSteps(sample_rate, time) ==
    LET num == sample_rate * time
        r == (2 * Abs(num) + 1000) \div 2000
    IN  IF num < 0 THEN 0 ELSE r

ComputeSteps(st, sample_rate) ==
    IF st.name = "None" THEN 1 ELSE RoundSteps(sample_rate, st.time)

\* ComputeStepSize with the division by the step count forgotten
ComputeStepSize_NoDivide(st, tgt, cur, n) ==
    CASE st.name = "None" -> Zero
      [] st.name = "Linear" -> FSub(tgt, cur)
      [] st.name = "Logarithmic" -> FDiv(tgt, cur)

ComputeStepSize(st, tgt, cur, n) ==
    CASE st.name = "None" -> Zero
      [] st.name = "Linear" -> FDiv(FSub(tgt, cur), FromInt(n))
      [] st.name = "Logarithmic" -> FPowRecip(FDiv(tgt, cur), n)

\* AtomicU32 on its signed 32-bit pattern: -1 is 2^32 - 1
UGt(s, n) == s < 0 \/ s > n
WrappingDec(s) == IF s = -I32Max - 1 THEN I32Max ELSE s - 1

is_smoothing == UGt(steps_left, 0)

\* The guard of next() taken one step too early
NextRamps_Zero(s) == UGt(s, 0)

\* The guard of next(): there are steps to take
NextRamps(s) == UGt(s, 1)

\* The new current value next() computes after its fetch_sub returned old
NextNew(st, old, cur, tgt, step) ==
    IF old = 1 THEN AsF32(tgt)
    ELSE CASE st.name = "None" -> AsF32(tgt)
           [] st.name = "Linear" -> FAdd(cur, step)
           [] st.name = "Logarithmic" -> FMul(cur, step)

\* NextIdle handing back the stored current value instead of the target
NextIdle_Current(tgt) == AsT(kind, current)

\* What next() returns when there are no steps to take
NextIdle(tgt) == tgt

\* No rounding happened in computing the linear step size / the next sum
StepExact(tgt, cur, n, step) ==
    /\ IsFin(tgt) /\ IsFin(cur) /\ IsFin(step) /\ n >= 1
    /\ FSub(tgt, cur) = Fin(tgt.v - cur.v)
    /\ step.v * n = tgt.v - cur.v
SumExact(cur, step, new) ==
    IsFin(cur) /\ IsFin(step) /\ IsFin(new) /\ new.v = cur.v + step.v

InitSmoother ==
    /\ kind \in {"f32", "i32"}
    /\ style \in Styles
    /\ host_sample_rate \in SampleRates
    /\ steps_left = 0
    /\ step_size = Zero
    /\ current = Zero
    /\ target = IF kind = "i32" THEN I32(0) ELSE Zero

InitCaller ==
    /\ op = "new"
    /\ arg = NoValue
    /\ last_ret = NoValue
    /\ installed = -1
    /\ since = 0
    /\ from = NoValue
    /\ base = NoValue
    /\ exact = TRUE

\* Reset with the store to steps_left forgotten
Reset_KeepsSteps(value) ==
    /\ target' = value
    /\ current' = AsF32(value)
    /\ UNCHANGED <<kind, style, step_size, steps_left, host_sample_rate>>
    /\ op' = "reset"
    /\ arg' = value
    /\ last_ret' = NoValue
    /\ installed' = -1
    /\ since' = 0
    /\ from' = NoValue
    /\ base' = NoValue
    /\ exact' = TRUE

Reset(value) ==
    /\ target' = value
    /\ current' = AsF32(value)
    /\ steps_left' = 0
    /\ UNCHANGED <<kind, style, step_size, host_sample_rate>>
    /\ op' = "reset"
    /\ arg' = value
    /\ last_ret' = NoValue
    /\ installed' = -1
    /\ since' = 0
    /\ from' = NoValue
    /\ base' = NoValue
    /\ exact' = TRUE

SetTarget(tgt) ==
    LET n == ComputeSteps(style, host_sample_rate)
        step == ComputeStepSize(style, AsF32(tgt), current, n)
    IN  /\ target' = tgt
        /\ steps_left' = n
        /\ step_size' = step
        /\ UNCHANGED <<kind, style, current, host_sample_rate>>
        /\ op' = "set_target"
            /\ arg' = tgt
        /\ installed' = n
        /\ since' = 0
        /\ from' = current
        /\ base' = IF last_ret = NoValue THEN AsT(kind, current) ELSE last_ret
        /\ exact' = (style.name = "Linear" /\ StepExact(AsF32(tgt), current, n, step))
        /\ UNCHANGED last_ret

NextCall ==
    /\ IF NextRamps(steps_left)
       THEN LET new == NextNew(style, steps_left, current, target, step_size)
            IN  /\ steps_left' = WrappingDec(steps_left)
                /\ current' = new
                /\ last_ret' = AsT(kind, new)
                /\ exact' = (exact /\ SumExact(current, step_size, new))
       ELSE /\ last_ret' = NextIdle(target)
            /\ UNCHANGED <<steps_left, current, exact>>
    /\ UNCHANGED <<kind, style, step_size, target, host_sample_rate>>
    /\ op' = "next"
    /\ since' = Min(since + 1, Max(installed, 0) + 1)
    /\ UNCHANGED <<arg, installed, from, base>>

(***************************************************************************)
(* The VST3 wrapper (src/src/wrapper/vst3.rs) around a plugin              *)
(* (SpecAdapter, SpecState).  The plugin is the one of                     *)
(* src/plugins/examples/vu for its channel counts and its acceptance       *)
(* predicate; what its initialize and process hooks return is left open,   *)
(* as the Plugin contract leaves it.  Parameters are keyed by their string *)
(* identifier: the 32-bit hash the host uses is a renaming of it.          *)
(***************************************************************************)
kResultOk == "kResultOk"
kResultFalse == "kResultFalse"
kInvalidArgument == "kInvalidArgument"

BusConfig(ins, outs) ==
    [num_input_channels |-> ins, num_output_channels |-> outs]
NoBufferConfig == [sample_rate |-> 0, max_buffer_size |-> 0]
BufferConfig(sample_rate, max_buffer_size) ==
    [sample_rate |-> sample_rate, max_buffer_size |-> max_buffer_size]

\* Vu::DEFAULT_NUM_INPUTS, Vu::DEFAULT_NUM_OUTPUTS, Vu::accepts_bus_config
DEFAULT_NUM_INPUTS == 2
DEFAULT_NUM_OUTPUTS == 2
accepts_bus_config(config) ==
    /\ config.num_input_channels = config.num_output_channels
    /\ config.num_input_channels > 0

\* ProcessStatus
Normal == [name |-> "Normal", samples |-> 0]
TailStatus(n) == [name |-> "Tail", samples |-> n]
KeepAlive == [name |-> "KeepAlive", samples |-> 0]
Error == [name |-> "Error", samples |-> 0]
TailSamples == {3}
ProcessStatuses == {Normal, KeepAlive, Error} \cup {TailStatus(n) : n \in TailSamples}

\* A SpeakerArrangement is a bit mask of speakers; count_ones
MaxSpeakers == 2
SpeakerArrangements == 0..(Pow2(MaxSpeakers) - 1)
RECURSIVE count_ones(_)
count_ones(mask) == IF mask = 0 THEN 0 ELSE (mask % 2) + count_ones(mask \div 2)

(***************************************************************************)
(* The parameter table.  A parameter holds its plain value and, unless it  *)
(* is a boolean, a Smoother.                                               *)
(***************************************************************************)
BYPASS_PARAM_ID == "bypass"
NoSmoother == [style |-> NoneStyle, steps_left |-> 0, step_size |-> Zero,
               current |-> Zero, target |-> Zero]

\* Smoother::new
NewSmoother(k, st) ==
    [style |-> st, steps_left |-> 0, step_size |-> Zero, current |-> Zero,
     target |-> IF k = "i32" THEN I32(0) ELSE Zero]

Bool(b) == [cls |-> "bool", v |-> IF b THEN 1 ELSE 0]

\* The parameters the plugin declares, at their defaults
DeclaredParams ==
    [id \in {"trim", "steps", "mute"} |->
        CASE id = "trim" ->
                 [kind |-> "f32", value |-> Zero,
                  smoothed |-> NewSmoother("f32", Linear(50))]
          [] id = "steps" ->
                 [kind |-> "i32", value |-> I32(0),
                  smoothed |-> NewSmoother("i32", NoneStyle)]
          [] id = "mute" ->
                 [kind |-> "bool", value |-> Bool(FALSE), smoothed |-> NoSmoother]]
ParamIds == DOMAIN DeclaredParams

\* Smoother::reset and Smoother::set_target on the smoother of a parameter
ResetOf_KeepsSteps(sm, value) ==
    [sm EXCEPT !.target = value, !.current = AsF32(value)]
ResetOf(sm, value) ==
    [sm EXCEPT !.target = value, !.current = AsF32(value), !.steps_left = 0]
SetTargetOf(sm, sample_rate, tgt) ==
    LET n == ComputeSteps(sm.style, sample_rate)
    IN  [sm EXCEPT !.target = tgt,
                   !.steps_left = n,
                   !.step_size = ComputeStepSize(sm.style, AsF32(tgt), sm.current, n)]

\* The smoother is idle at the parameter's value
IdleAtValue(p) ==
    p.kind = "bool" \/
        /\ p.smoothed.steps_left = 0
        /\ p.smoothed.target = p.value
        /\ p.smoothed.current = AsF32(p.value)

\* Normalized values the host sends, and the plain value of a normalized
\* value: trim ranges over 0.0..20.0, steps over 0..10, mute is on above 0.5
Half == Fin(One \div 2)
NormalizedValues == {Zero, Fin(One)}
preview_plain(p, normalized) ==
    CASE p.kind = "f32" -> FMul(FromInt(20), normalized)
      [] p.kind = "i32" ->
             I32(RoundToInt(FMul(FromInt(10), normalized), -I32Max - 1, I32Max))
      [] p.kind = "bool" -> Bool(normalized.v > Half.v)

set_plain_value(p, plain) == [p EXCEPT !.value = plain]

\* ParamPtr::update_smoother(sample_rate, reset)
update_smoother(p, sample_rate, reset) ==
    IF p.kind = "bool" THEN p
    ELSE [p EXCEPT !.smoothed =
              IF reset THEN ResetOf(@, p.value)
              ELSE SetTargetOf(@, sample_rate, p.value)]

\* WrapperInner::set_normalized_value_by_hash: the value becomes the plain value
\* of the parameter and, with the sample rate known, the target of its smoother;
\* an unknown identifier changes nothing
set_normalized_value_by_hash(ps, id, normalized, config) ==
    IF id \notin DOMAIN ps THEN ps
    ELSE LET p == set_plain_value(ps[id], preview_plain(ps[id], normalized))
         IN  [ps EXCEPT ![id] =
                  IF config = NoBufferConfig THEN p
                  ELSE update_smoother(p, config.sample_rate, FALSE)]

\* The record of the last call the host made and of what the plugin's hooks saw
\* No call of a conversion yet
NoUtilCall == [op |-> "none", arg |-> 0, ret |-> 0, before |-> <<>>]

\* No set_param_normalized call is under way
NoSetter == [pc |-> "idle", id |-> "", value |-> [cls |-> "fin", v |-> 0]]

\* Vu::default
VuDefault ==
    [history |-> <<<<>>, <<>>>>, sums |-> <<0, 0>>, history_len |-> 256,
     hook |-> "default", channels |-> 0, window_len |-> 0, panicked |-> FALSE]

\* data.inputs is null; data.input_events is null
NoInputs == [present |-> FALSE, ptrs |-> <<>>]
NoEventList == [present |-> FALSE, events |-> <<>>]

NoCall ==
    [name |-> "new", result |-> kResultOk, proposed |-> BusConfig(0, 0),
     buses |-> <<1, 1>>, setup |-> NoBufferConfig, hook_ok |-> TRUE,
     seen |-> <<>>, dispatched |-> FALSE, status |-> Normal,
     last_points |-> <<>>, after_error |-> FALSE, fresh |-> FALSE,
     own |-> FALSE, io |-> "ok", given |-> <<>>, inits |-> 0,
     init_with |-> <<>>, seen_fields |-> "", deferred |-> FALSE,
     poke |-> <<>>, inputs |-> NoInputs, audio |-> <<>>, copied |-> {},
     event_list |-> NoEventList, note_queue |-> <<>>, out_channels |-> 0,
     num_samples |-> 0, num_outputs |-> 0, tbool |-> 0]

NoStream == [data |-> <<>>, origin |-> [params |-> <<>>, fields |-> ""]]

\* WrapperInner::new
InitInstance ==
    /\ current_bus_config = BusConfig(DEFAULT_NUM_INPUTS, DEFAULT_NUM_OUTPUTS)
    /\ current_buffer_config = NoBufferConfig
    /\ is_processing = FALSE
    /\ last_process_status = Normal
    /\ bypass_state = FALSE
    /\ params = DeclaredParams
    /\ fields = "f0"
    /\ stream = NoStream
    /\ call = NoCall
    /\ output_ptrs = <<>>
    /\ input_events = <<>>
    /\ in_flight = FALSE
    /\ util_call = NoUtilCall
    /\ setter = NoSetter
    /\ vu = VuDefault

\* The wrapper of the Vu plugin, which takes no note events
InitAdapter == InitInstance /\ ACCEPTS_MIDI = FALSE

RtIdle == [pc |-> "idle", s |-> 0, cur |-> Zero, new |-> Zero, k |-> 0]
CtlIdle == [pc |-> "idle", n |-> 0, c0 |-> Zero, cur |-> Zero, torn |-> 0, calls |-> 0]

InitRaceIdle ==
    /\ rt = RtIdle
    /\ ctl = CtlIdle

NoSamples == [state |-> "none", current_sample |-> 0]

InitBufferIdle ==
    /\ output_slices = <<>>
    /\ samples = NoSamples
    /\ cursors = <<>>
    /\ yielded = 0
    /\ panicked = FALSE

Init ==
    InitSmoother /\ InitCaller /\ InitRaceIdle /\ InitBufferIdle /\ InitAdapter

Next ==
    \/ \E value \in Values(kind) :
           Reset(value) /\ UNCHANGED <<race_vars, buffer_vars, adapter_vars>>
    \/ \E tgt \in Values(kind) :
           SetTarget(tgt) /\ UNCHANGED <<race_vars, buffer_vars, adapter_vars>>
    \/ NextCall /\ UNCHANGED <<race_vars, buffer_vars, adapter_vars>>

Spec == Init /\ [][Next]_vars


(***************************************************************************)
(* Two threads on one smoother (SpecRace): the real-time thread calls      *)
(* next() while the control thread calls set_target() and reset().  Each   *)
(* action is one access to the smoother's memory, taken in program order.  *)
(***************************************************************************)
MaxWrapped == 2
MaxSetTargets == 2

RaceStyles == {NoneStyle, Linear(10), Linear(20), Logarithmic(30)}
RaceValues(k) ==
    IF k = "i32" THEN {I32(n) : n \in {0, 10, 20}}
    ELSE {FromInt(u) : u \in {0, 10, 20}}

\* The smoother as setup leaves it: constructed and reset to a value
InitRace ==
    /\ kind \in {"f32", "i32"}
    /\ style \in RaceStyles
    /\ host_sample_rate \in SampleRates
    /\ \E value \in RaceValues(kind) :
           /\ target = value
           /\ current = AsF32(value)
           /\ arg = value
    /\ steps_left = 0
    /\ step_size = Zero
    /\ op = "reset"
    /\ last_ret = NoValue
    /\ installed = -1
    /\ since = 0
    /\ from = NoValue
    /\ base = NoValue
    /\ exact = TRUE
    /\ rt = RtIdle
    /\ ctl = CtlIdle
    /\ InitBufferIdle
    /\ InitAdapter

\* set_target: `self.target = target` and the computation of the step count
CtlWriteTarget(tgt) ==
    /\ ctl.pc = "idle"
    /\ ctl.calls < MaxSetTargets
    /\ target' = tgt
    /\ ctl' = [pc |-> "store_steps", n |-> ComputeSteps(style, host_sample_rate),
               c0 |-> current, cur |-> Zero, torn |-> 0,
               calls |-> ctl.calls + 1]
    /\ rt' = [rt EXCEPT !.k = 0]
    /\ arg' = tgt
    /\ installed' = -1
    /\ since' = 0
    /\ UNCHANGED <<kind, style, steps_left, step_size, current, host_sample_rate>>
    /\ UNCHANGED <<op, last_ret, from, base, exact>>

\* set_target: `self.steps_left.store(steps_left, Ordering::Relaxed)`
CtlStoreSteps ==
    /\ ctl.pc = "store_steps"
    /\ steps_left' = ctl.n
    /\ ctl' = [ctl EXCEPT !.pc = "load_current"]
    /\ UNCHANGED <<kind, style, step_size, current, target, host_sample_rate>>
    /\ UNCHANGED <<rt, caller_vars>>

\* set_target: `let current = self.current.load(Ordering::Relaxed)`
CtlLoadCurrent ==
    /\ ctl.pc = "load_current"
    /\ ctl' = [ctl EXCEPT !.pc = "write_step_size", !.cur = current]
    /\ UNCHANGED <<smoother_vars, rt, caller_vars>>

\* set_target: `self.step_size = ...`, after which set_target returns
CtlWriteStepSize ==
    /\ ctl.pc = "write_step_size"
    /\ step_size' = ComputeStepSize(style, AsF32(target), ctl.cur, ctl.n)
    /\ ctl' = [ctl EXCEPT !.pc = "idle"]
    /\ op' = "set_target"
    /\ installed' = ctl.n
    /\ since' = 0
    /\ from' = ctl.cur
    /\ UNCHANGED <<kind, style, steps_left, current, target, host_sample_rate, rt>>
    /\ UNCHANGED <<arg, last_ret, base, exact>>

\* reset on the control thread: `self.target = value`
CtlResetTarget(value) ==
    /\ ctl.pc = "idle"
    /\ ctl.calls < MaxSetTargets
    /\ target' = value
    /\ ctl' = [pc |-> "reset_current", n |-> 0, c0 |-> current,
               cur |-> AsF32(value), torn |-> ctl.torn, calls |-> ctl.calls + 1]
    /\ rt' = [rt EXCEPT !.k = 0]
    /\ arg' = value
    /\ installed' = -1
    /\ since' = 0
    /\ UNCHANGED <<kind, style, steps_left, step_size, current, host_sample_rate>>
    /\ UNCHANGED <<op, last_ret, from, base, exact>>

\* reset: `self.current.store(value, Ordering::Relaxed)`
CtlResetCurrent ==
    /\ ctl.pc = "reset_current"
    /\ current' = ctl.cur
    /\ ctl' = [ctl EXCEPT !.pc = "reset_steps"]
    /\ UNCHANGED <<kind, style, steps_left, step_size, target, host_sample_rate>>
    /\ UNCHANGED <<rt, caller_vars>>

\* reset: `self.steps_left.store(0, Ordering::Relaxed)`, after which reset returns
CtlResetSteps ==
    /\ ctl.pc = "reset_steps"
    /\ steps_left' = 0
    /\ ctl' = [ctl EXCEPT !.pc = "idle"]
    /\ op' = "reset"
    /\ UNCHANGED <<kind, style, step_size, current, target, host_sample_rate, rt>>
    /\ UNCHANGED <<arg, last_ret, installed, since, from, base, exact>>

\* next: `if self.steps_left.load(Ordering::Relaxed) > 1`
RtLoadSteps ==
    /\ rt.pc = "idle"
    /\ steps_left >= -MaxWrapped
    /\ LET counted == ctl.pc = "idle" /\ installed >= 0
       IN  /\ rt' = [rt EXCEPT
                       !.pc = IF NextRamps(steps_left) THEN "load_current"
                              ELSE "return_target",
                       !.k = IF counted THEN Min(since + 1, installed + 2) ELSE 0]
           /\ since' = IF counted THEN Min(since + 1, installed + 2) ELSE since
    /\ UNCHANGED <<smoother_vars, ctl>>
    /\ UNCHANGED <<op, arg, last_ret, installed, from, base, exact>>

\* next: `let current = self.current.load(Ordering::Relaxed)`
RtLoadCurrent ==
    /\ rt.pc = "load_current"
    /\ rt' = [rt EXCEPT !.pc = "fetch_sub", !.cur = current]
    /\ UNCHANGED <<smoother_vars, ctl, caller_vars>>

\* next: `let old_steps_left = self.steps_left.fetch_sub(1, Ordering::Relaxed)`
RtFetchSub ==
    /\ rt.pc = "fetch_sub"
    /\ rt' = [rt EXCEPT !.pc = "compute", !.s = steps_left]
    /\ steps_left' = WrappingDec(steps_left)
    /\ UNCHANGED <<kind, style, step_size, current, target, host_sample_rate>>
    /\ UNCHANGED <<ctl, caller_vars>>

\* next: `let new = if old_steps_left == 1 { self.target } else { ... }`, which
\* reads target or step_size.  The result is disturbed by a torn observation when
\* set_target has stored its step count and not yet its step size, and the stale
\* step size takes the value outside the range from the current value set_target
\* started at to the new target.
RtCompute ==
    /\ rt.pc = "compute"
    /\ LET new == NextNew(style, rt.s, rt.cur, target, step_size)
           disturbed ==
               /\ ctl.pc \in {"load_current", "write_step_size"}
               /\ rt.s # 1 /\ style.name # "None"
               /\ ~Between(ctl.c0, new, AsF32(target))
       IN  /\ rt' = [rt EXCEPT !.pc = "store", !.new = new]
           /\ ctl' = IF disturbed THEN [ctl EXCEPT !.torn = Min(ctl.torn + 1, 2)]
                     ELSE ctl
    /\ UNCHANGED <<smoother_vars, caller_vars>>

\* next: `self.current.store(new, Ordering::Relaxed)` and the return of `new`
RtStore ==
    /\ rt.pc = "store"
    /\ current' = rt.new
    /\ last_ret' = AsT(kind, rt.new)
    /\ op' = "next"
    /\ rt' = [rt EXCEPT !.pc = "idle"]
    /\ UNCHANGED <<kind, style, steps_left, step_size, target, host_sample_rate, ctl>>
    /\ UNCHANGED <<arg, installed, since, from, base, exact>>

\* next: the else branch, `self.target`
RtReturnTarget ==
    /\ rt.pc = "return_target"
    /\ last_ret' = NextIdle(target)
    /\ op' = "next"
    /\ rt' = [rt EXCEPT !.pc = "idle"]
    /\ UNCHANGED <<smoother_vars, ctl>>
    /\ UNCHANGED <<arg, installed, since, from, base, exact>>

NextRace ==
    \/ \E tgt \in RaceValues(kind) :
           CtlWriteTarget(tgt) /\ UNCHANGED <<buffer_vars, adapter_vars>>
    \/ CtlStoreSteps /\ UNCHANGED <<buffer_vars, adapter_vars>>
    \/ CtlLoadCurrent /\ UNCHANGED <<buffer_vars, adapter_vars>>
    \/ CtlWriteStepSize /\ UNCHANGED <<buffer_vars, adapter_vars>>
    \/ \E value \in RaceValues(kind) :
           CtlResetTarget(value) /\ UNCHANGED <<buffer_vars, adapter_vars>>
    \/ CtlResetCurrent /\ UNCHANGED <<buffer_vars, adapter_vars>>
    \/ CtlResetSteps /\ UNCHANGED <<buffer_vars, adapter_vars>>
    \/ RtLoadSteps /\ UNCHANGED <<buffer_vars, adapter_vars>>
    \/ RtLoadCurrent /\ UNCHANGED <<buffer_vars, adapter_vars>>
    \/ RtFetchSub /\ UNCHANGED <<buffer_vars, adapter_vars>>
    \/ RtCompute /\ UNCHANGED <<buffer_vars, adapter_vars>>
    \/ RtStore /\ UNCHANGED <<buffer_vars, adapter_vars>>
    \/ RtReturnTarget /\ UNCHANGED <<buffer_vars, adapter_vars>>

SpecRace == InitRace /\ [][NextRace]_vars

\* C9: with set_target and next() interleaved, (a) at most one next() result of a
\* set_target is disturbed by a torn observation, (b) a next() call that begins
\* as the k-th after set_target has finished, k at least the installed step count,
\* returns the latest target exactly, and (c) the ramp never gets stuck: the step
\* counter does not wrap around.
C9_Claim ==
    /\ ctl.torn <= 1
    /\ (/\ op = "next" /\ rt.pc = "idle" /\ ctl.pc = "idle"
        /\ installed >= 0 /\ rt.k >= Max(installed, 1))
       => TEq(last_ret, target)
    /\ steps_left >= 0

(***************************************************************************)
(* Properties of the Smoother under Spec.                                  *)
(***************************************************************************)
\* C1: when set_target installed N >= 1 steps, the N-th next() after it (no reset
\* or set_target in between) returns exactly the target, for f32 and i32 and every
\* style.
C1_TargetAfterSteps ==
    (op = "next" /\ installed >= 1 /\ since = installed) => TEq(last_ret, target)

\* The N-th call of a ramp of at least 2 steps has returned the target while the
\* stored current value still differs from it.
C1_Witness ==
    /\ op = "next" /\ installed >= 2 /\ since = installed
    /\ ~FEq(current, AsF32(target))
    /\ TEq(last_ret, target)

\* The scenario of the tests: a Linear(100.0) smoother at current value 10 given
\* set_target(100.0, 20), which installs 10 steps
C2_Scenario ==
    /\ style = Linear(100) /\ installed = 10
    /\ from = FromInt(10) /\ AsF32(target) = FromInt(20)

\* C2 as stated: in the scenario the first 9 calls return a value other than 20 and
\* the 10th returns 20; and for f32 linear smoothing with target != current and
\* N >= 2 steps none of the first N-1 returned values equals the target.
C2_Claim ==
    /\ (C2_Scenario /\ op = "next" /\ since < 10) => ~TEq(last_ret, target)
    /\ (C2_Scenario /\ op = "next" /\ since = 10) => TEq(last_ret, target)
    /\ (/\ kind = "f32" /\ style.name = "Linear" /\ installed >= 2
        /\ ~FEq(from, target) /\ op = "next" /\ since < installed)
       => ~FEq(last_ret, target)

\* C2 (amended): the scenario as stated; in general none of the first N-1 values
\* equals the target provided the step size and every sum so far were computed
\* without rounding.
C2_NotEarly ==
    /\ (C2_Scenario /\ op = "next" /\ since < 10) => ~TEq(last_ret, target)
    /\ (C2_Scenario /\ op = "next" /\ since = 10) => TEq(last_ret, target)
    /\ (/\ kind = "f32" /\ style.name = "Linear" /\ installed >= 2
        /\ ~FEq(from, target) /\ exact /\ op = "next" /\ since < installed)
       => ~FEq(last_ret, target)

\* The 9th call of the scenario has returned 19.
C2_Witness ==
    /\ C2_Scenario /\ op = "next" /\ since = 9
    /\ AsF32(last_ret) = FromInt(19) /\ exact

\* C3: steps_left == 0 implies that the stored current value equals the target.
C3_Claim == (steps_left = 0) => FEq(current, AsF32(target))

\* C4: after reset(v), target == current == v and steps_left == 0, from an idle
\* state or mid-ramp, and the next() that follows returns exactly v.
C4_Reset ==
    /\ (op = "reset") =>
           (target = arg /\ current = AsF32(arg) /\ steps_left = 0)
    /\ (op = "next" /\ installed = -1 /\ arg # NoValue) => TEq(last_ret, arg)

\* next() has returned v after a reset(v) that came after a ramp had been set up.
C4_Witness ==
    /\ op = "next" /\ installed = -1 /\ arg # NoValue
    /\ step_size # Zero /\ arg.v # 0
    /\ last_ret = arg

\* C5: set_target never installs a step count of 0: at least 1 for the linear and
\* logarithmic styles, exactly 1 for the none style, so that the linear step size
\* is never the result of a division by zero.
C5_Claim ==
    (op = "set_target") =>
        /\ UGt(steps_left, 0)
        /\ (style.name = "None" => steps_left = 1)
        /\ (style.name = "Linear" => ~IsNaN(step_size) /\ step_size.cls # "inf")

\* C6: once the N calls of a ramp have been made, steps_left is 0 and
\* is_smoothing() is false.
C6_Claim ==
    (op = "next" /\ installed >= 1 /\ since >= installed) => ~is_smoothing

\* C7: every value next() returns after a set_target on a linear smoother lies
\* between the value next() returned last before that set_target and the target.
C7_Claim ==
    (/\ kind = "f32" /\ style.name = "Linear" /\ style.time > 0
     /\ op = "next" /\ installed >= 0)
    => Between(base, last_ret, target)

\* C8: a logarithmic smoother whose current value is exactly zero rejects
\* set_target: no multiplier that comes from a division by zero is installed.
C8_Claim ==
    (style.name = "Logarithmic" /\ installed >= 0 /\ FEq(from, Zero))
    => IsFin(step_size)


(***************************************************************************)
(* One pass over a Buffer with iter_mut (SpecBuffer).  The caller may keep *)
(* every Channels cursor it was handed and advance them in any order.      *)
(***************************************************************************)
MaxChannels == 3
MaxSamples == 3

\* A block of n channels of m samples each
Block(n, m) == [c \in 1..n |-> m]

InitBuffer ==
    /\ \E n \in 0..MaxChannels, m \in 0..MaxSamples : output_slices = Block(n, m)
    /\ samples = NoSamples
    /\ cursors = <<>>
    /\ yielded = 0
    /\ panicked = FALSE
    /\ InitSmoother /\ kind = "f32" /\ style = NoneStyle /\ host_sample_rate = 100
    /\ InitCaller
    /\ InitRaceIdle
    /\ InitAdapter

\* Buffer::iter_mut
IterMut ==
    /\ samples.state = "none"
    /\ samples' = [state |-> "iterating", current_sample |-> 0]
    /\ UNCHANGED <<output_slices, cursors, yielded, panicked>>

\* Samples::next: `self.buffers[0]` panics when there is no channel
SamplesNext ==
    /\ samples.state \in {"iterating", "exhausted"}
    /\ ~panicked
    /\ IF Len(output_slices) = 0
       THEN /\ panicked' = TRUE
            /\ UNCHANGED <<samples, cursors>>
       ELSE IF samples.current_sample < output_slices[1]
       THEN /\ cursors' = Append(cursors,
                              [current_sample |-> samples.current_sample,
                               current_channel |-> 0,
                               out |-> <<>>])
            /\ samples' = [samples EXCEPT !.current_sample = @ + 1]
            /\ UNCHANGED panicked
       ELSE /\ samples' = [samples EXCEPT !.state = "exhausted"]
            /\ UNCHANGED <<cursors, panicked>>
    /\ UNCHANGED <<output_slices, yielded>>

\* Channels::next on the i-th cursor handed out
ChannelsNext(i) ==
    /\ ~panicked
    /\ LET ch == cursors[i]
       IN  /\ ch.current_channel < Len(output_slices)
           /\ cursors' = [cursors EXCEPT ![i] =
                  [ch EXCEPT !.current_channel = @ + 1,
                             !.out = Append(@, <<ch.current_sample,
                                                 ch.current_channel>>)]]
           /\ yielded' = yielded + 1
    /\ UNCHANGED <<output_slices, samples, panicked>>

NextBuffer ==
    \/ IterMut /\ UNCHANGED <<smoother_vars, caller_vars, race_vars>>
               /\ UNCHANGED adapter_vars
    \/ SamplesNext /\ UNCHANGED <<smoother_vars, caller_vars, race_vars>>
                   /\ UNCHANGED adapter_vars
    \/ \E i \in DOMAIN cursors :
           ChannelsNext(i) /\ UNCHANGED <<smoother_vars, caller_vars, race_vars>>
                           /\ UNCHANGED adapter_vars

SpecBuffer == InitBuffer /\ [][NextBuffer]_vars

\* The pass is over: Samples::next has returned None and so would every cursor
PassDone ==
    /\ samples.state = "exhausted"
    /\ \A i \in DOMAIN cursors : cursors[i].current_channel >= Len(output_slices)

\* C10: iter_mut over N channels of M samples, for every N >= 0 and M >= 0, hands
\* out M cursors in ascending sample order, each handing out N references in
\* ascending channel order: N*M references, no coordinate twice; the pass
\* completes (it does not panic).
C10_Claim ==
    /\ ~panicked
    /\ \A i \in DOMAIN cursors :
           /\ cursors[i].current_sample = i - 1
           /\ \A k \in DOMAIN cursors[i].out : cursors[i].out[k] = <<i - 1, k - 1>>
    /\ PassDone =>
           /\ \A i \in DOMAIN cursors : Len(cursors[i].out) = Len(output_slices)
           /\ Len(output_slices) > 0 => Len(cursors) = output_slices[1]
           /\ Len(output_slices) > 0 =>
                  yielded = Len(output_slices) * output_slices[1]
           /\ Len(output_slices) = 0 => yielded = 0

\* Buffer::is_empty
is_empty == Len(output_slices) = 0 \/ output_slices[1] = 0

\* C11: is_empty() is true exactly when some channel has zero samples, and it
\* agrees with iteration, also for zero channels: a buffer it calls empty is one
\* whose pass ends without a sample and without failing, a buffer it calls
\* non-empty is one whose pass hands out a sample.
C11_Claim ==
    /\ Len(output_slices) > 0 =>
           (is_empty <=> \E c \in DOMAIN output_slices : output_slices[c] = 0)
    /\ is_empty => ~panicked
    /\ samples.state = "exhausted" => (is_empty <=> Len(cursors) = 0)

(***************************************************************************)
(* IAudioProcessor: bus negotiation, setup and the process call            *)
(* (SpecAdapter).                                                          *)
(***************************************************************************)
\* `if num_ins != 1 || num_outs != 1 { return kInvalidArgument; }`
NumBusesOk_Any(num_ins, num_outs) == TRUE
NumBusesOk(num_ins, num_outs) == num_ins = 1 /\ num_outs = 1

\* The bus configuration set_bus_arrangements leaves behind
StoredConfig_Unchecked(cur, proposed) == proposed
StoredConfig(cur, proposed) ==
    IF accepts_bus_config(proposed) THEN proposed ELSE cur

BusCounts == {1, 2}

\* Wrapper::set_bus_arrangements
SetBusArrangements(inputs, num_ins, outputs, num_outs) ==
    LET proposed_config == BusConfig(count_ones(inputs), count_ones(outputs))
    IN  /\ IF ~NumBusesOk(num_ins, num_outs)
           THEN /\ call' = [NoCall EXCEPT !.name = "set_bus_arrangements",
                                          !.result = kInvalidArgument,
                                          !.proposed = proposed_config,
                                          !.buses = <<num_ins, num_outs>>]
                /\ UNCHANGED current_bus_config
           ELSE /\ current_bus_config' =
                       StoredConfig(current_bus_config, proposed_config)
                /\ call' = [NoCall EXCEPT
                               !.name = "set_bus_arrangements",
                               !.result = IF accepts_bus_config(proposed_config)
                                          THEN kResultOk ELSE kResultFalse,
                               !.proposed = proposed_config,
                               !.buses = <<num_ins, num_outs>>]
        /\ UNCHANGED <<current_buffer_config, is_processing, last_process_status,
                       bypass_state, params, fields, stream>>
        /\ UNCHANGED <<buffer_vars, output_ptrs, midi_vars, aside_vars>>

\* Vec::resize_with(n, || &mut [])
resize_with(slices, n) ==
    [c \in 1..n |-> IF c <= Len(slices) THEN slices[c] ELSE 0]

\* The buffer configuration setup_processing leaves behind
ConfigAfterSetup_Always(cur, new, ok) == new
ConfigAfterSetup(cur, new, ok) == IF ok THEN new ELSE cur

MaxBlockSizes == {2}

\* Wrapper::setup_processing; ok is what the plugin's initialize returns
SetupProcessing(sample_rate, max_samples_per_block, ok) ==
    LET bus_config == current_bus_config
        buffer_config == BufferConfig(sample_rate, max_samples_per_block)
        reset_params ==
            [id \in DOMAIN params |->
                update_smoother(params[id], buffer_config.sample_rate, TRUE)]
    IN  /\ params' = reset_params
        /\ output_slices' =
               IF ok
               THEN resize_with(output_slices, bus_config.num_output_channels)
               ELSE output_slices
        /\ output_ptrs' =
               IF ok
               THEN resize_with(output_ptrs, bus_config.num_output_channels)
               ELSE output_ptrs
        /\ current_buffer_config' =
               ConfigAfterSetup(current_buffer_config, buffer_config, ok)
        /\ call' = [NoCall EXCEPT
                       !.name = "setup_processing",
                       !.result = IF ok THEN kResultOk ELSE kResultFalse,
                       !.setup = buffer_config,
                       !.hook_ok = ok,
                       !.seen = reset_params,
                       !.inits = 1,
                       !.init_with = <<bus_config, buffer_config>>,
                       !.seen_fields = fields]
        /\ UNCHANGED <<current_bus_config, is_processing, last_process_status,
                       bypass_state, fields, stream, midi_vars, aside_vars>>
        /\ UNCHANGED <<samples, cursors, yielded, panicked>>

\* A TBool of the host: a u8
TBools == {0, 1, 2}
\* set_processing: state != 0
ProcessingFlag_One(state) == state = 1
ProcessingFlag(state) == state # 0

\* Wrapper::set_processing; the call record keeps the status the plugin
\* returned if the call before was a block
SetProcessing(state) ==
    /\ last_process_status' = Normal
    /\ is_processing' = ProcessingFlag(state)
    /\ call' = [NoCall EXCEPT !.name = "set_processing",
                              !.tbool = state,
                              !.status = IF call.name = "process"
                                         THEN call.status ELSE Normal]
    /\ UNCHANGED <<current_bus_config, current_buffer_config, bypass_state,
                   params, fields, stream>>
    /\ UNCHANGED <<buffer_vars, output_ptrs, midi_vars, aside_vars>>

\* The automation of one block: parameter change queues with distinct
\* identifiers, each a sequence of points
MaxPoints == 2
QueueIds == {"trim", "nope"}
RECURSIVE SeqsUpTo(_, _)
SeqsUpTo(S, n) ==
    IF n = 0 THEN {<<>>}
    ELSE LET shorter == SeqsUpTo(S, n - 1)
         IN  shorter \cup {Append(s, x) : s \in shorter, x \in S}
\* Consecutive points of a queue differ in value
PointSeqs ==
    {ps \in SeqsUpTo(NormalizedValues, MaxPoints) :
        \A i \in 1..(Len(ps) - 1) : ps[i] # ps[i + 1]}
Queues == [id : QueueIds, points : PointSeqs]
\* The host lists the queue of the identifier the plugin does not declare first
QueueRank == [id \in QueueIds |-> IF id = "nope" THEN 1 ELSE 2]
ParamChanges ==
    {qs \in SeqsUpTo(Queues, Cardinality(QueueIds)) :
        \A i, j \in DOMAIN qs : i < j => QueueRank[qs[i].id] < QueueRank[qs[j].id]}

\* IParamValueQueue::get_point_count, get_point
get_point_count(queue) == Len(queue.points)
get_point(queue, index) == queue.points[index + 1]

\* The index of the point process takes from a queue
PointIndex_First(num_changes) == 0
PointIndex(num_changes) == num_changes - 1

\* process: the loop over the parameter change queues, from queue i on
RECURSIVE IngestQueues(_, _, _, _)
IngestQueues(ps, queues, i, config) ==
    IF i > Len(queues) THEN ps
    ELSE LET param_change_queue == queues[i]
             num_changes == get_point_count(param_change_queue)
             ingested ==
                 IF num_changes > 0
                 THEN set_normalized_value_by_hash(
                          ps, param_change_queue.id,
                          get_point(param_change_queue, PointIndex(num_changes)),
                          config)
                 ELSE ps
         IN  IngestQueues(ingested, queues, i + 1, config)

\* What the host sent last for each identifier that has a point
LastPoints(queues) ==
    LET with_points == {i \in DOMAIN queues : Len(queues[i].points) > 0}
    IN  [id \in {queues[i].id : i \in with_points} |->
            LET i == CHOOSE k \in with_points : queues[k].id = id
            IN  queues[i].points[Len(queues[i].points)]]

\* The result of process for the status the plugin returned
ProcessResult_Ok(status) == kResultOk
ProcessResult(status) ==
    IF status.name = "Error" THEN kResultFalse ELSE kResultOk

BlockSizes == {2}
NumOutputs == {0, 1}

\* The call before this one was a block for which the plugin returned Error
AfterError == call.name = "process" /\ call.status = Error

\* The call before this one was a set_param_normalized that returned early
\* because is_processing was set, and what it was given
AfterDeferred == call.name = "set_param_normalized" /\ call.deferred
DeferredPoke == IF AfterDeferred THEN call.poke ELSE <<>>

\* The host's audio memory: a channel buffer is known by its address; the
\* host's own output buffer of channel c, and a buffer apart from all output
\* buffers that holds the input of channel i
OutPtr(c) == c
InPtr(i) == 10 + i
\* What a channel buffer holds when the host calls process
HostAudio(a) == 100 + a

\* data.outputs.buffers for n channels, and the layouts of data.inputs with
\* n_in channels: each input channel is the output buffer of the same index
\* (in place) or a buffer of its own
MaxInputs == 3
OutputPtrs(n) == [c \in 1..n |-> OutPtr(c)]
InputLayouts(n_in, n_out) ==
    {ptrs \in [1..n_in -> {OutPtr(c) : c \in 1..n_out} \cup {InPtr(i) : i \in 1..n_in}] :
        \A i \in 1..n_in : ptrs[i] = InPtr(i) \/ (i <= n_out /\ ptrs[i] = OutPtr(i))}
InPlace(n_out) ==
    [present |-> TRUE, ptrs |-> OutputPtrs(n_out)]

\* What lies in memory behind the last pointer of the host's array of output
\* channel pointers: no channel buffer of the host
WildPtrs == {OutPtr(0) - 1, OutPtr(0) - 2}
\* process: *((*data.outputs).buffers).add(output_channel_idx)
HostPtr(data, output_channel_idx) ==
    IF output_channel_idx \in DOMAIN data.outputs
    THEN data.outputs[output_channel_idx]
    ELSE data.beyond

\* process: whether a channel is copied
CopyNeeded_Never(input_channel_ptr, output_channel_ptr) == FALSE
CopyNeeded(input_channel_ptr, output_channel_ptr) ==
    input_channel_ptr # output_channel_ptr

\* process: the copy loop over the channels from input_channel_idx on; mem
\* is the host's audio memory, by address
RECURSIVE CopyInputs(_, _, _, _)
CopyInputs(mem, inputs, outputs, input_channel_idx) ==
    IF input_channel_idx > Min(Len(inputs), Len(outputs)) THEN mem
    ELSE LET output_channel_ptr == outputs[input_channel_idx]
             input_channel_ptr == inputs[input_channel_idx]
         IN  CopyInputs(
                 IF CopyNeeded(input_channel_ptr, output_channel_ptr)
                 THEN [mem EXCEPT ![output_channel_ptr] = mem[input_channel_ptr]]
                 ELSE mem,
                 inputs, outputs, input_channel_idx + 1)

\* The channels the loop copies
Copied(inputs, outputs) ==
    {i \in 1..Min(Len(inputs), Len(outputs)) : CopyNeeded(inputs[i], outputs[i])}

\* The events of the host: type, sample offset, channel, pitch and velocity
\* (in quarters of 1.0)
MaxEvents == 2
HostEvents ==
    {[type_ |-> "kNoteOnEvent", sample_offset |-> 0, channel |-> 0,
      pitch |-> 60, velocity |-> 2],
     [type_ |-> "kNoteOffEvent", sample_offset |-> 1, channel |-> 0,
      pitch |-> 60, velocity |-> 4],
     [type_ |-> "kDataEvent", sample_offset |-> 0, channel |-> 0,
      pitch |-> 0, velocity |-> 0]}
EventLists ==
    {NoEventList} \cup
        {[present |-> TRUE, events |-> es] : es \in SeqsUpTo(HostEvents, MaxEvents)}

\* `as u8` of an integer; (velocity * 127.0).round() as u8
AsU8(n) == n % 256
Velocity(quarters) ==
    LET rounded == (2 * quarters * 127 + 4) \div 8
    IN  IF rounded > 255 THEN 255 ELSE rounded

\* process: the loop over the host's events, from event i on
RECURSIVE PushNotes(_, _, _)
PushNotes(queue, events, i) ==
    IF i > Len(events) THEN queue
    ELSE LET event == events[i]
             note(k) == [kind |-> k, timing |-> event.sample_offset,
                         channel |-> AsU8(event.channel),
                         note |-> AsU8(event.pitch),
                         velocity |-> Velocity(event.velocity)]
         IN  PushNotes(
                 IF event.type_ = "kNoteOnEvent"
                 THEN Append(queue, note("NoteOn"))
                 ELSE IF event.type_ = "kNoteOffEvent"
                      THEN Append(queue, note("NoteOff"))
                      ELSE queue,
                 events, i + 1)

\* process: input_events after the ingestion of the block's events
IngestEvents(queue, event_list) ==
    IF ACCEPTS_MIDI /\ event_list.present
    THEN PushNotes(<<>>, event_list.events, 1)
    ELSE queue

\* The plugin takes the events of the block out of the queue while it
\* processes the block
ConsumeEvents(queue) == <<>>

\* The process data of a block: automation, events, audio buffers
ProcessData(queues, event_list, inputs, num_outputs, num_samples) ==
    [input_param_changes |-> queues, input_events |-> event_list,
     inputs |-> inputs, outputs |-> OutputPtrs(Len(output_slices)),
     beyond |-> OutPtr(0) - 1,
     num_outputs |-> num_outputs, num_samples |-> num_samples]
\* A block without an event list that is processed in place
BlockData(queues, num_outputs, num_samples) ==
    ProcessData(queues, NoEventList, InPlace(Len(output_slices)),
                num_outputs, num_samples)

\* process: the host only wanted to send new parameter values
ParameterFlush_Never(data) == FALSE
ParameterFlush(data) == data.num_outputs = 0

\* Wrapper::process; status is what the plugin's process returns
Process(data, status) ==
    LET queues == data.input_param_changes
        ingested == IngestQueues(params, queues, 1, current_buffer_config)
        note_queue == IngestEvents(input_events, data.input_events)
        mem0 == [a \in {OutPtr(c) : c \in 1..MaxInputs + 1}
                         \cup {InPtr(i) : i \in 1..MaxInputs + 1}
                         \cup WildPtrs |-> HostAudio(a)]
        mem == IF data.inputs.present
               THEN CopyInputs(mem0, data.inputs.ptrs, data.outputs, 1)
               ELSE mem0
    IN  /\ current_buffer_config # NoBufferConfig
        /\ params' = ingested
        /\ IF ParameterFlush(data)
           THEN /\ call' = [NoCall EXCEPT !.name = "process",
                                          !.result = kResultOk,
                                          !.last_points = LastPoints(queues),
                                          !.after_error = AfterError,
                                          !.deferred = AfterDeferred,
                                          !.poke = DeferredPoke,
                                          !.inputs = data.inputs,
                                          !.event_list = data.input_events]
                /\ input_events' = note_queue
                /\ UNCHANGED <<output_slices, output_ptrs>>
           ELSE /\ output_slices' =
                       [c \in DOMAIN output_slices |-> data.num_samples]
                /\ output_ptrs' = [c \in DOMAIN output_slices |-> HostPtr(data, c)]
                /\ input_events' = IF ACCEPTS_MIDI THEN ConsumeEvents(note_queue)
                                   ELSE input_events
                /\ call' = [NoCall EXCEPT
                               !.name = "process",
                               !.result = ProcessResult(status),
                               !.dispatched = TRUE,
                               !.status = status,
                               !.seen = params',
                               !.last_points = LastPoints(queues),
                               !.after_error = AfterError,
                               !.deferred = AfterDeferred,
                               !.poke = DeferredPoke,
                               !.inputs = data.inputs,
                               !.audio = [c \in DOMAIN output_slices |->
                                             mem[HostPtr(data, c)]],
                               !.out_channels = Len(data.outputs),
                               !.num_outputs = data.num_outputs,
                               !.num_samples = data.num_samples,
                               !.copied =
                                   IF data.inputs.present
                                   THEN Copied(data.inputs.ptrs, data.outputs)
                                   ELSE {},
                               !.event_list = data.input_events,
                               !.note_queue = note_queue]
        /\ UNCHANGED <<current_bus_config, current_buffer_config, is_processing,
                       last_process_status, bypass_state, fields, stream,
                       ACCEPTS_MIDI, aside_vars>>
        /\ UNCHANGED <<samples, cursors, yielded, panicked>>

\* u32::MAX (kInfiniteTail), kept as its 32-bit pattern read as a signed number
kInfiniteTail == -1

\* Wrapper::get_tail_samples
get_tail_samples ==
    CASE last_process_status.name = "Tail" -> last_process_status.samples
      [] last_process_status.name = "KeepAlive" -> kInfiniteTail
      [] OTHER -> 0

InitSpecAdapter ==
    /\ InitAdapter
    /\ InitSmoother /\ kind = "f32" /\ style = NoneStyle
    /\ host_sample_rate = 100
    /\ InitCaller
    /\ InitRaceIdle
    /\ InitBufferIdle

\* The host negotiating the buses and setting up processing
NextNegotiate ==
    \/ \E inputs, outputs \in SpeakerArrangements,
          num_ins, num_outs \in BusCounts :
           SetBusArrangements(inputs, num_ins, outputs, num_outs)
               /\ UNCHANGED <<smoother_vars, caller_vars, race_vars, in_flight>>
    \/ \E sample_rate \in SampleRates, max_samples_per_block \in MaxBlockSizes,
          ok \in BOOLEAN :
           SetupProcessing(sample_rate, max_samples_per_block, ok)
               /\ UNCHANGED <<smoother_vars, caller_vars, race_vars, in_flight>>
    \/ \E state \in TBools :
           SetProcessing(state)
               /\ UNCHANGED <<smoother_vars, caller_vars, race_vars, in_flight>>

SpecNegotiate == InitSpecAdapter /\ [][NextNegotiate]_vars

\* The host setting up processing and processing blocks
NextAdapter ==
    \/ \E sample_rate \in SampleRates, max_samples_per_block \in MaxBlockSizes,
          ok \in BOOLEAN :
           SetupProcessing(sample_rate, max_samples_per_block, ok)
               /\ UNCHANGED <<smoother_vars, caller_vars, race_vars, in_flight>>
    \/ \E state \in TBools :
           SetProcessing(state)
               /\ UNCHANGED <<smoother_vars, caller_vars, race_vars, in_flight>>
    \/ \E queues \in ParamChanges, num_outputs \in NumOutputs,
          num_samples \in BlockSizes :
           \E status \in (IF num_outputs = 0 THEN {Normal} ELSE ProcessStatuses) :
           Process(BlockData(queues, num_outputs, num_samples), status)
               /\ UNCHANGED <<smoother_vars, caller_vars, race_vars, in_flight>>

SpecAdapter == InitSpecAdapter /\ [][NextAdapter]_vars

(***************************************************************************)
(* Bus negotiation and processing setup (SpecNegotiate).                   *)
(***************************************************************************)
\* The last call proposed a configuration set_bus_arrangements does not take
Rejected(c) ==
    /\ c.name = "set_bus_arrangements"
    /\ ~accepts_bus_config(c.proposed) \/ c.buses # <<1, 1>>

\* C12: set_bus_arrangements with a proposal that accepts_bus_config rejects,
\* or with a bus count other than one input and one output, returns a non-OK
\* result and leaves the current bus configuration, the buffer configuration
\* and the output slots unchanged; a valid proposal is accepted and stored in
\* every state, so also after a rejection.
C12_RejectionLeavesConfig ==
    [][/\ Rejected(call') =>
              /\ call'.result # kResultOk
              /\ current_bus_config' = current_bus_config
              /\ current_buffer_config' = current_buffer_config
              /\ output_slices' = output_slices
       /\ (call'.name = "set_bus_arrangements" /\ ~Rejected(call')) =>
              /\ call'.result = kResultOk
              /\ current_bus_config' = call'.proposed]_vars

\* A proposal was rejected on an instance that had negotiated a configuration
\* other than the default and had set up processing
C12_Witness ==
    /\ Rejected(call)
    /\ call.result = kResultFalse
    /\ current_bus_config = BusConfig(1, 1)
    /\ current_buffer_config # NoBufferConfig
    /\ Len(output_slices) = DEFAULT_NUM_OUTPUTS

\* C13: in every reachable state, the state after construction with the
\* default channel counts included, accepts_bus_config holds of the current
\* bus configuration, and a call of set_bus_arrangements that returned OK
\* stored a proposal the predicate accepts.
C13_CurrentConfigAccepted ==
    /\ accepts_bus_config(current_bus_config)
    /\ (call.name = "set_bus_arrangements" /\ call.result = kResultOk) =>
           /\ current_bus_config = call.proposed
           /\ accepts_bus_config(call.proposed)
    /\ call.name = "new" =>
           current_bus_config = BusConfig(DEFAULT_NUM_INPUTS, DEFAULT_NUM_OUTPUTS)

\* A proposal with unequal channel counts was made with one input and one
\* output bus, after a configuration other than the default was stored
C13_Witness ==
    /\ call.name = "set_bus_arrangements"
    /\ call.buses = <<1, 1>>
    /\ call.proposed.num_input_channels # call.proposed.num_output_channels
    /\ current_bus_config # BusConfig(DEFAULT_NUM_INPUTS, DEFAULT_NUM_OUTPUTS)

\* C14: setup_processing returns a non-OK result whenever initialize returns
\* false, and then neither stores the buffer configuration nor resizes the
\* output slots; when initialize returns true it returns OK, there are as
\* many output slots as the negotiated configuration has output channels,
\* and the stored buffer configuration is the one given.
C14_SetupReportsInitialize ==
    [][call'.name = "setup_processing" =>
           IF call'.hook_ok
           THEN /\ call'.result = kResultOk
                /\ Len(output_slices') = current_bus_config'.num_output_channels
                /\ current_buffer_config' = call'.setup
           ELSE /\ call'.result # kResultOk
                /\ current_buffer_config' = current_buffer_config
                /\ output_slices' = output_slices]_vars

\* initialize returned false for a new sample rate on an instance whose
\* slot count no longer matches the negotiated configuration
C14_Witness ==
    /\ call.name = "setup_processing"
    /\ ~call.hook_ok
    /\ call.result = kResultFalse
    /\ current_buffer_config # NoBufferConfig
    /\ current_buffer_config # call.setup
    /\ Len(output_slices) # current_bus_config.num_output_channels

(***************************************************************************)
(* Processing setup and block processing (SpecAdapter).                    *)
(***************************************************************************)
\* C15: after setup_processing the smoother of every declared parameter is
\* idle at the parameter's value, whatever ramp was in progress, and the
\* initialize hook already sees the parameters in that state.
C15_SetupResetsSmoothers ==
    call.name = "setup_processing" =>
        /\ DOMAIN call.seen = ParamIds
        /\ \A id \in ParamIds :
               /\ IdleAtValue(params[id])
               /\ IdleAtValue(call.seen[id])
               /\ call.seen[id].value = params[id].value

\* setup_processing was called while the ramp of an automated value was in
\* progress: the step size of that ramp is still in the smoother
C15_Witness ==
    /\ call.name = "setup_processing"
    /\ params["trim"].value # DeclaredParams["trim"].value
    /\ params["trim"].smoothed.step_size # Zero
    /\ params["trim"].smoothed.steps_left = 0

\* What one point does to a parameter when the sample rate is known: its
\* plain value is the parameter's value and its smoother's target, the ramp
\* starts from where the smoother is
Applied(before, after, normalized, sample_rate) ==
    LET plain == preview_plain(before, normalized)
    IN  /\ after.value = plain
        /\ after.kind = before.kind
        /\ after.smoothed.target = plain
        /\ after.smoothed.current = before.smoothed.current
        /\ after.smoothed.steps_left =
               ComputeSteps(before.smoothed.style, sample_rate)

\* C16: in process, for every queue with at least one point the last point,
\* and no earlier one, is applied to the parameter with the queue's
\* identifier as a new smoothing target; an identifier that is not declared
\* and a queue without points change no parameter and do not make the block
\* fail; the plugin's process sees the parameters after the ingestion.
C16_LastPointApplied ==
    [][call'.name = "process" =>
           /\ \A id \in ParamIds :
                  IF id \in DOMAIN call'.last_points
                  THEN Applied(params[id], params'[id], call'.last_points[id],
                               current_buffer_config.sample_rate)
                  ELSE params'[id] = params[id]
           /\ DOMAIN params' = ParamIds
           /\ call'.result # kResultOk => call'.status = Error
           /\ call'.dispatched => call'.seen = params']_vars

\* A block brought a point for trim and a point for an identifier that is
\* not declared, and the plugin processed it
C16_Witness ==
    /\ call.name = "process"
    /\ call.dispatched
    /\ call.result = kResultOk
    /\ DOMAIN call.last_points = QueueIds
    /\ params["trim"].smoothed.steps_left > 0
    /\ params["trim"].smoothed.target # params["trim"].smoothed.current

\* The tail length the status a plugin returned stands for
TailOf(status) ==
    CASE status.name = "Tail" -> status.samples
      [] status.name = "KeepAlive" -> kInfiniteTail
      [] OTHER -> 0

\* C17: after a process call in which the plugin returned Tail(N)
\* get_tail_samples returns N, after KeepAlive it returns u32::MAX, after
\* any other status 0.
C17_Claim ==
    (call.name = "process" /\ call.dispatched) =>
        get_tail_samples = TailOf(call.status)

\* C18: a process call with an output bus returns a failure result exactly
\* when the plugin's process returned Error; the block of an Error leaves
\* the bus configuration, the buffer configuration, the activity flag and the
\* number of slots as they were, and the process call after it is dispatched
\* to the plugin and returns what that block's status stands for.
C18_ErrorBlock ==
    [][(call'.name = "process" /\ call'.dispatched) =>
           /\ call'.result # kResultOk <=> call'.status = Error
           /\ call'.status = Error =>
                  /\ current_bus_config' = current_bus_config
                  /\ current_buffer_config' = current_buffer_config
                  /\ is_processing' = is_processing
                  /\ Len(output_slices') = Len(output_slices)
           /\ call'.after_error =>
                  /\ call'.seen = params'
                  /\ call'.status # Error => call'.result = kResultOk]_vars

\* The plugin processed a block normally right after a block for which it
\* had returned Error, while processing was active
C18_Witness ==
    /\ call.name = "process"
    /\ call.after_error
    /\ call.dispatched
    /\ call.status = Normal
    /\ call.result = kResultOk
    /\ is_processing
    /\ Len(output_slices) = current_bus_config.num_output_channels

(***************************************************************************)
(* Saving and restoring state (SpecState).                                 *)
(***************************************************************************)
\* ParamValue: a plain value tagged with the kind of its parameter
ParamValue(tag, v) == [tag |-> tag, v |-> v]
Tags == {"F32", "I32", "Bool"}
TagOf(k) ==
    CASE k = "f32" -> "F32"
      [] k = "i32" -> "I32"
      [] k = "bool" -> "Bool"

\* State { params, fields }
State(ps, fs) == [params |-> ps, fields |-> fs]
NoState == State(<<>>, "")

\* get_state: the map of the declared parameters, then the insert of the
\* bypass flag under the reserved identifier
StateParams_NoBypass(ps, bypass) ==
    [id \in DOMAIN ps |-> ParamValue(TagOf(ps[id].kind), ps[id].value)]
StateParams(ps, bypass) ==
    [id \in DOMAIN ps \cup {BYPASS_PARAM_ID} |->
        IF id = BYPASS_PARAM_ID THEN ParamValue("Bool", Bool(bypass))
        ELSE ParamValue(TagOf(ps[id].kind), ps[id].value)]

\* The codec of the stream: one <<key, tag, number>> per entry of the map,
\* in the order of KeyOrder, then <<"fields", fields>>.  A key occurs once.
KeyOrder == <<"bypass", "mute", "nope", "steps", "trim">>

RECURSIVE EncodeParams(_, _)
EncodeParams(ps, i) ==
    IF i > Len(KeyOrder) THEN <<>>
    ELSE LET key == KeyOrder[i]
         IN  IF key \in DOMAIN ps
             THEN <<<<key, ps[key].tag, ps[key].v.v>>>> \o EncodeParams(ps, i + 1)
             ELSE EncodeParams(ps, i + 1)

to_vec(state) ==
    Append(EncodeParams(state.params, 1), <<"fields", state.fields>>)

DecodeValue(tag, n) ==
    CASE tag = "F32" -> Fin(n)
      [] tag = "I32" -> I32(n)
      [] tag = "Bool" -> Bool(n # 0)

\* from_slice returns Ok for the data this holds of
Decodes(data) ==
    /\ Len(data) > 0
    /\ Len(data[Len(data)]) = 2
    /\ data[Len(data)][1] = "fields"
    /\ \A i \in 1..(Len(data) - 1) : Len(data[i]) = 3 /\ data[i][2] \in Tags

from_slice(data) ==
    LET n == Len(data) - 1
    IN  State([key \in {data[i][1] : i \in 1..n} |->
                  LET i == CHOOSE k \in 1..n : data[k][1] = key
                  IN  ParamValue(data[i][2], DecodeValue(data[i][2], data[i][3]))],
              data[n + 1][2])

\* set_state: `match (param_ptr, param_value)`
ApplyValue_Skip(p, pv) == p
ApplyValue(p, pv) ==
    IF pv.tag = TagOf(p.kind) THEN set_plain_value(p, pv.v) ELSE p

\* set_state: the loop over state.params, from key i of KeyOrder on
RECURSIVE RestoreParams(_, _, _, _)
RestoreParams(ps, sp, i, config) ==
    IF i > Len(KeyOrder) THEN ps
    ELSE LET param_id_str == KeyOrder[i]
         IN  IF \/ param_id_str \notin DOMAIN sp
                \/ param_id_str = BYPASS_PARAM_ID
                \/ param_id_str \notin DOMAIN ps
             THEN RestoreParams(ps, sp, i + 1, config)
             ELSE LET p == ApplyValue(ps[param_id_str], sp[param_id_str])
                      q == IF config = NoBufferConfig THEN p
                           ELSE update_smoother(p, config.sample_rate, TRUE)
                  IN  RestoreParams([ps EXCEPT ![param_id_str] = q],
                                    sp, i + 1, config)

\* RestoreBypass taking a value of any tag for the bypass flag
RestoreBypass_AnyTag(cur, sp) ==
    IF BYPASS_PARAM_ID \in DOMAIN sp THEN sp[BYPASS_PARAM_ID].v.v # 0 ELSE cur

\* set_state: the bypass flag after the loop
RestoreBypass(cur, sp) ==
    IF BYPASS_PARAM_ID \in DOMAIN sp /\ sp[BYPASS_PARAM_ID].tag = "Bool"
    THEN sp[BYPASS_PARAM_ID].v = Bool(TRUE)
    ELSE cur

\* Streams the host can hand to set_state that no get_state of this plugin
\* wrote: bytes that are no state, and states with an identifier that is not
\* declared and with values of another kind than the parameter's
ForeignStreams ==
    {<<<<"garbage">>>>,
     <<<<"bypass", "I32", 1>>, <<"nope", "F32", 0>>, <<"steps", "F32", 0>>,
       <<"trim", "F32", FromInt(20).v>>, <<"fields", "f1">>>>,
     <<<<"bypass", "Bool", 1>>, <<"mute", "Bool", 1>>, <<"steps", "I32", 10>>,
       <<"fields", "f1">>>>}

\* Wrapper::get_state (component).  Serializing a State cannot fail.
GetState ==
    LET plugin_state == State(StateParams(params, bypass_state), fields)
    IN  /\ stream' = [data |-> to_vec(plugin_state), origin |-> plugin_state]
        /\ call' = [NoCall EXCEPT !.name = "get_state", !.result = kResultOk]
        /\ UNCHANGED <<current_bus_config, current_buffer_config, is_processing,
                       last_process_status, bypass_state, params, fields>>
        /\ UNCHANGED <<buffer_vars, output_ptrs, midi_vars, aside_vars>>

\* What the stream does when set_state reads it: it works, it cannot tell
\* its length (tell or seek fails), or read returns fewer bytes than that
StreamReads == {"ok", "no_length", "short_read"}

\* set_state: tell and the two seeks return kResultOk
LengthKnown_Any(io) == TRUE
LengthKnown(io) == io # "no_length"

\* set_state: what state.read leaves in read_buffer
read_buffer(data, io) ==
    IF io = "short_read" /\ Len(data) > 0
    THEN SubSeq(data, 1, Len(data) - 1)
    ELSE data

\* set_state: the number of calls of initialize
InitsOfRestore_Never(known) == 0
InitsOfRestore(known) == IF known THEN 1 ELSE 0

\* Wrapper::set_state (component) with a stream holding data; io is what the
\* stream does, ok is what the plugin's initialize returns (it is ignored)
SetState(data, io, ok) ==
    LET fresh == call.name = "new"
        own == stream.data # <<>> /\ data = stream.data /\ io = "ok"
        stream_byte_size == Len(data)
        buffer == read_buffer(data, io)
    IN  /\ IF \/ ~LengthKnown(io)
              \/ Len(buffer) # stream_byte_size
              \/ ~Decodes(buffer)
           THEN /\ call' = [NoCall EXCEPT !.name = "set_state",
                                          !.result = kResultFalse,
                                          !.fresh = fresh, !.own = own,
                                          !.io = io, !.given = data]
                /\ UNCHANGED <<bypass_state, params, fields>>
           ELSE LET state == from_slice(buffer)
                    bus_config == current_bus_config
                    known == current_buffer_config # NoBufferConfig
                IN  /\ params' = RestoreParams(params, state.params, 1,
                                               current_buffer_config)
                    /\ bypass_state' = RestoreBypass(bypass_state, state.params)
                    /\ fields' = state.fields
                    /\ call' = [NoCall EXCEPT
                                   !.name = "set_state",
                                   !.result = kResultOk,
                                   !.fresh = fresh, !.own = own,
                                   !.io = io, !.given = data,
                                   !.inits = InitsOfRestore(known),
                                   !.hook_ok = IF known THEN ok ELSE TRUE,
                                   !.init_with =
                                       IF known
                                       THEN <<bus_config, current_buffer_config>>
                                       ELSE <<>>,
                                   !.seen = IF known THEN params' ELSE <<>>,
                                   !.seen_fields =
                                       IF known THEN fields' ELSE ""]
        /\ UNCHANGED <<current_bus_config, current_buffer_config, is_processing,
                       last_process_status, stream>>
        /\ UNCHANGED <<buffer_vars, output_ptrs, midi_vars, aside_vars>>

\* Wrapper::set_param_normalized
SetParamNormalized(id, value) ==
    /\ IF is_processing
       THEN UNCHANGED <<bypass_state, params>>
       ELSE IF id = BYPASS_PARAM_ID
            THEN bypass_state' = (value.v > Half.v) /\ UNCHANGED params
            ELSE /\ params' = set_normalized_value_by_hash(
                                  params, id, value, current_buffer_config)
                 /\ UNCHANGED bypass_state
    /\ call' = [NoCall EXCEPT !.name = "set_param_normalized",
                              !.deferred = is_processing,
                              !.poke = <<id, value>>]
    /\ UNCHANGED <<current_bus_config, current_buffer_config, is_processing,
                   last_process_status, fields, stream>>
    /\ UNCHANGED <<buffer_vars, output_ptrs, midi_vars, aside_vars>>

\* The host drops the instance and creates another one of the same plugin; it
\* keeps the stream
NewInstance ==
    /\ current_bus_config' = BusConfig(DEFAULT_NUM_INPUTS, DEFAULT_NUM_OUTPUTS)
    /\ current_buffer_config' = NoBufferConfig
    /\ is_processing' = FALSE
    /\ last_process_status' = Normal
    /\ bypass_state' = FALSE
    /\ params' = DeclaredParams
    /\ fields' = "f0"
    /\ call' = NoCall
    /\ output_slices' = <<>>
    /\ output_ptrs' = <<>>
    /\ input_events' = <<>>
    /\ UNCHANGED <<stream, samples, cursors, yielded, panicked, ACCEPTS_MIDI,
                   aside_vars>>

NextState ==
    \/ GetState /\ UNCHANGED <<smoother_vars, caller_vars, race_vars, in_flight>>
    \/ \E data \in {stream.data} \cup ForeignStreams, io \in StreamReads :
           SetState(data, io, TRUE)
               /\ UNCHANGED <<smoother_vars, caller_vars, race_vars, in_flight>>
    \/ \E id \in ParamIds \cup {BYPASS_PARAM_ID}, value \in NormalizedValues :
           SetParamNormalized(id, value)
               /\ UNCHANGED <<smoother_vars, caller_vars, race_vars, in_flight>>
    \/ \E state \in TBools :
           SetProcessing(state)
               /\ UNCHANGED <<smoother_vars, caller_vars, race_vars, in_flight>>
    \/ NewInstance /\ UNCHANGED <<smoother_vars, caller_vars, race_vars, in_flight>>

SpecState == InitSpecAdapter /\ [][NextState]_vars

\* C19: get_state builds a state whose parameter map has as keys the declared
\* identifiers and the reserved bypass identifier; a declared key maps to the
\* parameter's plain value tagged with its kind, the bypass key to
\* Bool(bypass flag); the fields are the plugin's fields; this state is what
\* the stream holds.
C19_SavedState ==
    call.name = "get_state" =>
        LET saved == stream.origin
        IN  /\ call.result = kResultOk
            /\ DOMAIN saved.params = ParamIds \cup {BYPASS_PARAM_ID}
            /\ \A id \in ParamIds :
                   /\ saved.params[id].v = params[id].value
                   /\ params[id].kind = "f32" => saved.params[id].tag = "F32"
                   /\ params[id].kind = "i32" => saved.params[id].tag = "I32"
                   /\ params[id].kind = "bool" => saved.params[id].tag = "Bool"
            /\ saved.params[BYPASS_PARAM_ID] =
                   ParamValue("Bool", Bool(bypass_state))
            /\ saved.fields = fields
            /\ Decodes(stream.data)
            /\ from_slice(stream.data) = saved

\* get_state was called with no value at its default
C19_Witness ==
    /\ call.name = "get_state"
    /\ \A id \in ParamIds : params[id].value # DeclaredParams[id].value
    /\ bypass_state
    /\ fields # "f0"

\* C20: set_state on a fresh instance with the stream get_state wrote
\* returns OK and leaves the instance with the plain value of every declared
\* parameter, the bypass flag and the fields that get_state saved.
C20_RoundTrip ==
    (call.name = "set_state" /\ call.fresh /\ call.own) =>
        LET saved == stream.origin
        IN  /\ call.result = kResultOk
            /\ \A id \in ParamIds : params[id].value = saved.params[id].v
            /\ Bool(bypass_state) = saved.params[BYPASS_PARAM_ID].v
            /\ fields = saved.fields

\* A fresh instance was restored from a stream in which no value was at its
\* default
C20_Witness ==
    /\ call.name = "set_state"
    /\ call.fresh
    /\ call.own
    /\ call.result = kResultOk
    /\ \A id \in ParamIds : params[id].value # DeclaredParams[id].value
    /\ bypass_state
    /\ fields # "f0"


(***************************************************************************)
(* Restoring state on an instance in use (SpecRestore).                    *)
(***************************************************************************)
NextRestore ==
    \/ \E sample_rate \in SampleRates, max_samples_per_block \in MaxBlockSizes,
          ok \in BOOLEAN :
           SetupProcessing(sample_rate, max_samples_per_block, ok)
               /\ UNCHANGED <<smoother_vars, caller_vars, race_vars, in_flight>>
    \/ \E id \in ParamIds \cup {BYPASS_PARAM_ID}, value \in NormalizedValues :
           SetParamNormalized(id, value)
               /\ UNCHANGED <<smoother_vars, caller_vars, race_vars, in_flight>>
    \/ \E data \in {stream.data} \cup ForeignStreams, io \in StreamReads,
          ok \in BOOLEAN :
           SetState(data, io, ok)
               /\ UNCHANGED <<smoother_vars, caller_vars, race_vars, in_flight>>

SpecRestore == InitSpecAdapter /\ [][NextRestore]_vars

\* The tag of a value is the one of the parameter's kind
WellTyped(p, pv) ==
    \/ p.kind = "f32" /\ pv.tag = "F32"
    \/ p.kind = "i32" /\ pv.tag = "I32"
    \/ p.kind = "bool" /\ pv.tag = "Bool"

\* set_state was given a stream that works and whose bytes decode
Restorable(c) ==
    c.name = "set_state" /\ c.io = "ok" /\ Decodes(c.given)

\* C21: set_state on a decodable stream that has entries with an identifier
\* that is not declared or with a value of another kind than the parameter's
\* (a value that is no boolean for the bypass identifier included) returns
\* OK; such an entry changes no parameter value and not the bypass flag, and
\* every well-typed entry of a declared parameter is applied.
C21_BadEntriesSkipped ==
    [][Restorable(call') =>
           LET sp == from_slice(call'.given).params
           IN  /\ call'.result = kResultOk
               /\ DOMAIN params' = ParamIds
               /\ \A id \in ParamIds :
                      params'[id].value =
                          IF id \in DOMAIN sp /\ WellTyped(params[id], sp[id])
                          THEN sp[id].v
                          ELSE params[id].value
               /\ bypass_state' =
                      IF /\ BYPASS_PARAM_ID \in DOMAIN sp
                         /\ sp[BYPASS_PARAM_ID].tag = "Bool"
                      THEN sp[BYPASS_PARAM_ID].v = Bool(TRUE)
                      ELSE bypass_state]_vars

\* A stream with an undeclared identifier, a float for the integer parameter
\* and an integer for the bypass flag was restored on an instance whose
\* integer parameter was not at its default: that value and the bypass flag
\* stayed, the float of the stream was applied
C21_Witness ==
    /\ Restorable(call)
    /\ call.result = kResultOk
    /\ "nope" \in DOMAIN from_slice(call.given).params
    /\ from_slice(call.given).params["steps"].tag = "F32"
    /\ from_slice(call.given).params[BYPASS_PARAM_ID].tag = "I32"
    /\ params["steps"].value # DeclaredParams["steps"].value
    /\ params["trim"].value = from_slice(call.given).params["trim"].v
    /\ params["trim"].value # DeclaredParams["trim"].value
    /\ ~bypass_state

\* C22: set_state on a stream that cannot tell its length, whose read
\* returns fewer bytes than its length, or whose bytes do not decode returns
\* failure, leaves every parameter value and smoother, the bypass flag and
\* the fields unchanged and does not call initialize.
C22_FailedRestore ==
    [][(call'.name = "set_state" /\ ~Restorable(call')) =>
           /\ call'.result = kResultFalse
           /\ params' = params
           /\ bypass_state' = bypass_state
           /\ fields' = fields
           /\ call'.inits = 0]_vars

\* The read of a decodable stream came short on an instance with a ramp in
\* progress and no value at its default
C22_Witness ==
    /\ call.name = "set_state"
    /\ call.io = "short_read"
    /\ Decodes(call.given)
    /\ call.result = kResultFalse
    /\ params["trim"].smoothed.steps_left > 0
    /\ \A id \in ParamIds : params[id].value # DeclaredParams[id].value
    /\ bypass_state

\* C23: after a set_state that returns OK while the sample rate is known the
\* smoother of every declared parameter is idle at the parameter's value, the
\* parameters without an entry in the stream and those in a ramp included,
\* and the plugin's initialize sees them so.
C23_Claim ==
    (call.name = "set_state" /\ call.result = kResultOk
         /\ current_buffer_config # NoBufferConfig) =>
        \A id \in ParamIds :
            IdleAtValue(params[id]) /\ IdleAtValue(call.seen[id])

\* C24: every set_state that returns OK calls initialize once, with the
\* current bus and buffer configuration, after the parameter values and the
\* fields have been applied.
C24_Claim ==
    (call.name = "set_state" /\ call.result = kResultOk) =>
        /\ call.inits = 1
        /\ call.init_with = <<current_bus_config, current_buffer_config>>
        /\ call.seen = params
        /\ call.seen_fields = fields

\* C24 as the code has it: set_state that returns OK while a buffer
\* configuration is stored calls initialize once, with the current bus and
\* buffer configuration, after the parameter values and the fields have been
\* applied, and returns OK whatever initialize returns; while no buffer
\* configuration is stored it does not call initialize.
C24_ReinitializeWhenSetUp ==
    (call.name = "set_state" /\ call.result = kResultOk) =>
        IF current_buffer_config # NoBufferConfig
        THEN /\ call.inits = 1
             /\ call.init_with = <<current_bus_config, current_buffer_config>>
             /\ call.seen = params
             /\ call.seen_fields = fields
        ELSE call.inits = 0

\* State was restored on an instance that was set up, values and fields
\* changed, and initialize returned false
C24_Witness ==
    /\ call.name = "set_state"
    /\ call.result = kResultOk
    /\ current_buffer_config # NoBufferConfig
    /\ call.inits = 1
    /\ ~call.hook_ok
    /\ params["trim"].value # DeclaredParams["trim"].value
    /\ fields # "f0"


(***************************************************************************)
(* Parameter edits of the controller between blocks (SpecEdit).            *)
(***************************************************************************)
\* Blocks with at most one parameter change queue
EditChanges == {qs \in ParamChanges : Len(qs) <= 1}

NextEdit ==
    \/ \E sample_rate \in {host_sample_rate},
          max_samples_per_block \in MaxBlockSizes :
           SetupProcessing(sample_rate, max_samples_per_block, TRUE)
               /\ UNCHANGED <<smoother_vars, caller_vars, race_vars, in_flight>>
    \/ \E state \in TBools :
           SetProcessing(state)
               /\ UNCHANGED <<smoother_vars, caller_vars, race_vars, in_flight>>
    \/ \E id \in ParamIds \cup {BYPASS_PARAM_ID}, value \in NormalizedValues :
           SetParamNormalized(id, value)
               /\ UNCHANGED <<smoother_vars, caller_vars, race_vars, in_flight>>
    \/ \E queues \in EditChanges, num_outputs \in NumOutputs,
          num_samples \in BlockSizes :
           Process(BlockData(queues, num_outputs, num_samples), Normal)
               /\ UNCHANGED <<smoother_vars, caller_vars, race_vars, in_flight>>

SpecEdit == InitSpecAdapter /\ [][NextEdit]_vars

\* C25: set_param_normalized returns OK; while is_processing is set it
\* changes no parameter value and no smoother, and the value it was given is
\* the parameter's value after the ingestion of the next block; while
\* is_processing is clear the value is applied in the call.
C25_Claim ==
    [][/\ call'.name = "set_param_normalized" =>
              /\ call'.result = kResultOk
              /\ call'.deferred =>
                     params' = params /\ bypass_state' = bypass_state
              /\ (~call'.deferred /\ call'.poke[1] \in ParamIds) =>
                     params'[call'.poke[1]].value =
                         preview_plain(params[call'.poke[1]], call'.poke[2])
       /\ (call'.name = "process" /\ call'.deferred
               /\ call'.poke[1] \in ParamIds) =>
              params'[call'.poke[1]].value =
                  preview_plain(params[call'.poke[1]], call'.poke[2])]_vars


(***************************************************************************)
(* The control thread and the real-time thread on one instance             *)
(* (SpecThreads).                                                          *)
(***************************************************************************)
\* The locks a call takes; process reaches the plugin through
\* plugin.data_ptr(), which takes no lock
LocksOf(name) ==
    CASE name = "process" -> {"output_buffer"}
      [] name = "set_state" -> {"plugin"}
      [] name = "set_bus_arrangements" -> {"plugin"}
      [] name = "setup_processing" -> {"plugin", "output_buffer"}
      [] OTHER -> {}

\* A call of the control thread cannot get a lock while the block in flight
\* holds it
Blocked(name) ==
    in_flight /\ LocksOf(name) \cap LocksOf("process") # {}

\* The real-time thread has entered the plugin's process
ProcessDispatch(data, status) ==
    /\ ~in_flight
    /\ Process(data, status)
    /\ in_flight' = call'.dispatched

\* The plugin's process returns
ProcessReturn ==
    /\ in_flight
    /\ in_flight' = FALSE
    /\ UNCHANGED <<current_bus_config, current_buffer_config, is_processing,
                   last_process_status, bypass_state, params, fields, stream,
                   call, output_ptrs, midi_vars, aside_vars>>
    /\ UNCHANGED buffer_vars

NextThreads ==
    \/ \E sample_rate \in SampleRates, max_samples_per_block \in MaxBlockSizes :
           /\ ~Blocked("setup_processing")
           /\ SetupProcessing(sample_rate, max_samples_per_block, TRUE)
           /\ UNCHANGED <<smoother_vars, caller_vars, race_vars, in_flight>>
    \/ \E inputs, outputs \in SpeakerArrangements :
           /\ ~Blocked("set_bus_arrangements")
           /\ SetBusArrangements(inputs, 1, outputs, 1)
           /\ UNCHANGED <<smoother_vars, caller_vars, race_vars, in_flight>>
    \/ \E data \in ForeignStreams, ok \in BOOLEAN :
           /\ ~Blocked("set_state")
           /\ SetState(data, "ok", ok)
           /\ UNCHANGED <<smoother_vars, caller_vars, race_vars, in_flight>>
    \/ \E num_outputs \in NumOutputs, num_samples \in BlockSizes,
          status \in {Normal, Error} :
           /\ ProcessDispatch(BlockData(<<>>, num_outputs, num_samples), status)
           /\ UNCHANGED <<smoother_vars, caller_vars, race_vars>>
    \/ ProcessReturn /\ UNCHANGED <<smoother_vars, caller_vars, race_vars>>

SpecThreads == InitSpecAdapter /\ [][NextThreads]_vars

\* C26: whatever the interleaving of the control thread and the real-time
\* thread, no call of set_state (its parameter writes and its call of
\* initialize included) and no call of set_bus_arrangements runs while the
\* plugin's process is in flight.
C26_Claim ==
    [][(call' # call /\ call'.name \in {"set_state", "set_bus_arrangements"})
           => ~in_flight]_vars


(***************************************************************************)
(* The audio buffers of a block (SpecAudio).                               *)
(***************************************************************************)
\* data.inputs of a block for an instance with n_out output channels
BlockInputs(n_out) ==
    {NoInputs} \cup
        {[present |-> TRUE, ptrs |-> ptrs] :
             ptrs \in UNION {InputLayouts(n_in, n_out) : n_in \in 0..MaxInputs}}

NextAudio ==
    \/ \E sample_rate \in {host_sample_rate},
          max_samples_per_block \in MaxBlockSizes :
           SetupProcessing(sample_rate, max_samples_per_block, TRUE)
               /\ UNCHANGED <<smoother_vars, caller_vars, race_vars, in_flight>>
    \/ \E inputs, outputs \in SpeakerArrangements :
           SetBusArrangements(inputs, 1, outputs, 1)
               /\ UNCHANGED <<smoother_vars, caller_vars, race_vars, in_flight>>
    \/ \E inputs \in BlockInputs(Len(output_slices)), num_outputs \in NumOutputs,
          num_samples \in BlockSizes :
           Process(ProcessData(<<>>, NoEventList, inputs, num_outputs,
                               num_samples), Normal)
               /\ UNCHANGED <<smoother_vars, caller_vars, race_vars, in_flight>>

SpecAudio == InitSpecAdapter /\ [][NextAudio]_vars

\* The number of channels the copy loop of the last block went over
CopyChannels == Min(Len(call.inputs.ptrs), Len(output_ptrs))

C28_Claim ==
    (call.name = "process" /\ call.inputs.present
         /\ Len(call.inputs.ptrs) > Len(output_ptrs)) =>
        ~call.dispatched

\* C30: once process has returned no slot of the output buffer points into
\* the host's audio memory.
C30_Claim ==
    (call.name = "process" /\ ~in_flight) =>
        \A c \in DOMAIN output_ptrs :
            output_ptrs[c] \notin {OutPtr(k) : k \in DOMAIN output_ptrs}


(***************************************************************************)
(* The note events of a block (SpecMidi).                                  *)
(***************************************************************************)
\* The wrapper of a plugin that takes note events, or of one that does not
InitSpecMidi ==
    /\ InitInstance
    /\ ACCEPTS_MIDI \in BOOLEAN
    /\ InitSmoother /\ kind = "f32" /\ style = NoneStyle
    /\ host_sample_rate = 100
    /\ InitCaller
    /\ InitRaceIdle
    /\ InitBufferIdle

NextMidi ==
    \/ \E sample_rate \in {host_sample_rate},
          max_samples_per_block \in MaxBlockSizes :
           SetupProcessing(sample_rate, max_samples_per_block, TRUE)
               /\ UNCHANGED <<smoother_vars, caller_vars, race_vars, in_flight>>
    \/ \E event_list \in EventLists, num_outputs \in NumOutputs,
          num_samples \in BlockSizes :
           Process(ProcessData(<<>>, event_list, InPlace(Len(output_slices)),
                               num_outputs, num_samples), Normal)
               /\ UNCHANGED <<smoother_vars, caller_vars, race_vars, in_flight>>

SpecMidi == InitSpecMidi /\ [][NextMidi]_vars

\* The note-on and note-off events of an event list, in its order, each with
\* its kind and sample offset
IsNote(event) == event.type_ \in {"kNoteOnEvent", "kNoteOffEvent"}
NotesOf(event_list) ==
    LET notes == SelectSeq(event_list.events, IsNote)
    IN  [i \in 1..Len(notes) |->
            <<IF notes[i].type_ = "kNoteOnEvent" THEN "NoteOn" ELSE "NoteOff",
              notes[i].sample_offset>>]
\* The kind and the timing of each event of a queue
Timed(queue) == [i \in 1..Len(queue) |-> <<queue[i].kind, queue[i].timing>>]

\* C29: for a plugin that takes note events, when its process is dispatched
\* the queue holds the note-on and note-off events of this block's event
\* list, in the host's order and with their sample offsets, and nothing else:
\* no event of an earlier block (also when this block has no event list) and
\* no event of another type; for a plugin that takes none the queue is never
\* written.
C29_Claim ==
    /\ (ACCEPTS_MIDI /\ call.name = "process" /\ call.dispatched) =>
           Timed(call.note_queue) = NotesOf(call.event_list)
    /\ ~ACCEPTS_MIDI => input_events = <<>>


(***************************************************************************)
(* Gain and decibel conversion, util.rs (SpecGain).                        *)
(* A gain is a whole number of GainQuantum-ths; a level is a whole number  *)
(* of decibels. The gains are the powers of ten and the levels the         *)
(* multiples of 20 dB, for which log10 and powf have exact results.        *)
(***************************************************************************)
MINUS_INFINITY_DB == -100

\* The gain 1.0 is 10^GainDigits quanta
GainDigits == 6
MaxDecade == GainDigits + 2
RECURSIVE Pow10(_)
Pow10(n) == IF n = 0 THEN 1 ELSE 10 * Pow10(n - 1)
GainQuantum == Pow10(GainDigits)

\* f32::log10 of a positive gain that is a power of ten: the number of
\* divisions by ten that bring it down to one quantum, less the digits of 1.0
RECURSIVE Decades(_)
Decades(n) == IF n < 10 THEN 0 ELSE 1 + Decades(n \div 10)
log10(gain) == Decades(gain) - GainDigits

\* 10.0f32.powf(x) for a whole x; below one quantum the result is 0
powf10(x) == IF x + GainDigits < 0 THEN 0 ELSE Pow10(x + GainDigits)

\* db_to_gain; dbs * 0.05 is dbs / 20
db_to_gain(dbs) ==
    IF dbs > MINUS_INFINITY_DB THEN powf10(dbs \div 20) ELSE 0

\* gain_to_db
gain_to_db(gain) ==
    IF gain > 0 THEN log10(gain) * 20 ELSE MINUS_INFINITY_DB

\* The gains and the levels the conversions are called with
Gains == {-2 * GainQuantum, 0} \cup {Pow10(j) : j \in 0..MaxDecade}
Levels == {20 * k : k \in (-GainDigits - 1)..(MaxDecade - GainDigits)}

\* Two gains are the same to the tolerance of an f32: they differ by less
\* than one part in a million of the greater one
SameGain(a, b) == Abs(a - b) <= Max(Abs(a), Abs(b)) \div 1000000

UtilCall(f, x, y) ==
    /\ util_call' = [op |-> f, arg |-> x, ret |-> y,
                     before |-> <<util_call.op, util_call.arg, util_call.ret>>]
    /\ UNCHANGED <<current_bus_config, current_buffer_config, is_processing,
                   last_process_status, bypass_state, params, fields, stream,
                   call, output_ptrs, midi_vars, in_flight, setter, vu>>
    /\ UNCHANGED <<smoother_vars, caller_vars, race_vars, buffer_vars>>

DbToGain(dbs) == UtilCall("db_to_gain", dbs, db_to_gain(dbs))
GainToDb(gain) == UtilCall("gain_to_db", gain, gain_to_db(gain))

NextGain ==
    \/ \E dbs \in Levels : DbToGain(dbs)
    \/ \E gain \in Gains : GainToDb(gain)

SpecGain == InitSpecAdapter /\ [][NextGain]_vars

\* db_to_gain was given what the gain_to_db call before it returned
RoundTrip ==
    /\ util_call.op = "db_to_gain"
    /\ util_call.before[1] = "gain_to_db"
    /\ util_call.arg = util_call.before[3]

\* C31: db_to_gain returns 0.0 for every level at or below -100 dB,
\* gain_to_db returns -100 dB for every gain that is not positive, and for
\* every gain above 0 db_to_gain(gain_to_db(gain)) is the gain to the
\* tolerance of the floating point format, the gains whose level is at or
\* below -100 dB included.
C31_Claim ==
    /\ (util_call.op = "db_to_gain" /\ util_call.arg <= MINUS_INFINITY_DB) =>
           util_call.ret = 0
    /\ (util_call.op = "gain_to_db" /\ util_call.arg <= 0) =>
           util_call.ret = MINUS_INFINITY_DB
    /\ (RoundTrip /\ util_call.before[2] > 0) =>
           SameGain(util_call.ret, util_call.before[2])


(***************************************************************************)
(* The host's channel counts against the slots of the adapter (SpecHost).  *)
(* The host gives every block the channel count that was negotiated last.  *)
(***************************************************************************)
\* data.num_samples as the host may give it
HostSampleCounts == BlockSizes \cup {0, -1}

\* The process data of a block of n channels processed in place; beyond is
\* what lies behind the n output channel pointers
HostData(n, beyond, num_outputs, num_samples) ==
    [input_param_changes |-> <<>>, input_events |-> NoEventList,
     inputs |-> InPlace(n), outputs |-> OutputPtrs(n), beyond |-> beyond,
     num_outputs |-> num_outputs, num_samples |-> num_samples]

NextHost ==
    \/ \E sample_rate \in {host_sample_rate},
          max_samples_per_block \in MaxBlockSizes :
           SetupProcessing(sample_rate, max_samples_per_block, TRUE)
               /\ UNCHANGED <<smoother_vars, caller_vars, race_vars, in_flight>>
    \/ \E inputs, outputs \in SpeakerArrangements :
           SetBusArrangements(inputs, 1, outputs, 1)
               /\ UNCHANGED <<smoother_vars, caller_vars, race_vars, in_flight>>
    \/ \E data \in ForeignStreams :
           SetState(data, "ok", TRUE)
               /\ UNCHANGED <<smoother_vars, caller_vars, race_vars, in_flight>>
    \/ \E beyond \in WildPtrs, num_outputs \in NumOutputs,
          num_samples \in HostSampleCounts :
           Process(HostData(current_bus_config.num_output_channels, beyond,
                            num_outputs, num_samples), Normal)
               /\ UNCHANGED <<smoother_vars, caller_vars, race_vars, in_flight>>

SpecHost == InitSpecAdapter /\ [][NextHost]_vars

\* C32: whatever the sequence of set_bus_arrangements, setup_processing,
\* set_state and process calls, when the plugin's process is dispatched the
\* number of slots of the output buffer is the output channel count of the
\* current bus configuration.
C32_Claim ==
    (call.name = "process" /\ call.dispatched) =>
        Len(output_slices) = current_bus_config.num_output_channels

\* The indices at which the last block read the host's array of output
\* channel pointers: one per slot
Dereferenced == DOMAIN output_ptrs

\* C33: in a process call the host's channel pointers are read only at
\* indices below the channel count the host gave for the bus in this call,
\* whatever the number of slots earlier calls left, and channel slices are
\* made only for a sample count that is not negative.
C33_Claim ==
    (call.name = "process" /\ call.dispatched) =>
        /\ Dereferenced \subseteq 1..call.out_channels
        /\ call.num_samples >= 0


(***************************************************************************)
(* Parameter flushes between blocks (SpecFlush).                           *)
(***************************************************************************)
\* The automation and the event lists of the blocks: no queue, two points for
\* trim, a point for an identifier that is not declared; no event list, an
\* empty one, two notes, a note after an event of another type
FlushChanges ==
    {qs \in ParamChanges :
        /\ Len(qs) <= 1
        /\ \A i \in DOMAIN qs :
               qs[i].points \in {<<Zero, Fin(One)>>, <<Fin(One)>>}}
FlushEvents ==
    {el \in EventLists :
        Len(el.events) > 1 => el.events[1].type_ # "kNoteOffEvent"}

NextFlush ==
    \/ \E sample_rate \in {host_sample_rate},
          max_samples_per_block \in MaxBlockSizes :
           SetupProcessing(sample_rate, max_samples_per_block, TRUE)
               /\ UNCHANGED <<smoother_vars, caller_vars, race_vars, in_flight>>
    \/ \E queues \in FlushChanges, event_list \in FlushEvents,
          num_outputs \in NumOutputs, num_samples \in BlockSizes :
           Process(ProcessData(queues, event_list, InPlace(Len(output_slices)),
                               num_outputs, num_samples), Normal)
               /\ UNCHANGED <<smoother_vars, caller_vars, race_vars, in_flight>>

SpecFlush == InitSpecMidi /\ [][NextFlush]_vars

\* C34: a process call whose data has no output bus (a parameter flush)
\* applies the automation and the note events of the block, returns OK, does
\* not re-point the slots of the output buffer and does not call the
\* plugin's process.
C34_Flush ==
    [][(call'.name = "process" /\ call'.num_outputs = 0) =>
           /\ call'.result = kResultOk
           /\ ~call'.dispatched
           /\ output_slices' = output_slices
           /\ output_ptrs' = output_ptrs
           /\ \A id \in ParamIds :
                  IF id \in DOMAIN call'.last_points
                  THEN Applied(params[id], params'[id], call'.last_points[id],
                               current_buffer_config.sample_rate)
                  ELSE params'[id] = params[id]
           /\ IF ACCEPTS_MIDI /\ call'.event_list.present
              THEN Timed(input_events') = NotesOf(call'.event_list)
              ELSE input_events' = input_events]_vars

\* A flush after a block that was processed: it brought a point for trim
\* and two note events, and the slots still point where that block left them
C34_Witness ==
    /\ call.name = "process"
    /\ call.num_outputs = 0
    /\ ~call.dispatched
    /\ "trim" \in DOMAIN call.last_points
    /\ params["trim"].value # DeclaredParams["trim"].value
    /\ Len(input_events) = 2
    /\ Len(output_ptrs) > 0
    /\ \A c \in DOMAIN output_ptrs : output_ptrs[c] = OutPtr(c)


\* C35: set_processing(state) sets is_processing to (state != 0) and the
\* last process status to Normal, so that get_tail_samples returns 0 right
\* after it whatever status the plugin returned before; it changes neither
\* the bus configuration nor the buffer configuration.
C35_SetProcessing ==
    [][call'.name = "set_processing" =>
           /\ call'.result = kResultOk
           /\ is_processing' = (call'.tbool # 0)
           /\ last_process_status' = Normal
           /\ get_tail_samples' = 0
           /\ current_bus_config' = current_bus_config
           /\ current_buffer_config' = current_buffer_config]_vars

\* Processing was switched with a TBool that is neither 0 nor 1 right after
\* a block for which the plugin returned KeepAlive
C35_Witness ==
    /\ call.name = "set_processing"
    /\ call.tbool = 2
    /\ call.status = KeepAlive
    /\ is_processing
    /\ get_tail_samples = 0
    /\ current_buffer_config # NoBufferConfig

(***************************************************************************)
(* The idle branch of next() and the value next() leaves in `current`      *)
(* (Spec), and the step counter under two threads (SpecRace).              *)
(***************************************************************************)
\* C36: a next() call made when steps_left is 0 or 1 returns the target and
\* leaves steps_left, the stored current value, the step size and the target
\* as they were, so that repeating the call changes nothing.
C36_IdleNext ==
    [][(op' = "next" /\ steps_left \in {0, 1})
       => /\ last_ret' = target
          /\ steps_left' = steps_left
          /\ current' = current
          /\ step_size' = step_size
          /\ target' = target]_vars

\* A second next() in a row past the end of a ramp of two or more steps
C36_Witness ==
    /\ op = "next"
    /\ installed >= 2
    /\ since = installed + 1
    /\ steps_left = 1
    /\ last_ret = target

\* C37: every next() returns the value that is stored as the current value when
\* the call has returned.
C37_Claim ==
    op = "next" => last_ret = AsT(kind, current)

\* C38: with next() on one thread and set_target() and reset() on another, the old value
\* next()'s fetch_sub reads is never 0, the step counter is never 2^32 - 1, and
\* the smoother does not smooth before a set_target has installed steps.
C38_Claim ==
    /\ rt.pc = "compute" => rt.s # 0
    /\ steps_left # -1
    /\ (ctl.calls = 0 => ~is_smoothing)

(***************************************************************************)
(* set_param_normalized on the control thread, access by access, next to   *)
(* set_processing and the real-time thread (SpecParam).  The host starts a *)
(* block only after set_processing(true).                                  *)
(***************************************************************************)
\* set_param_normalized: `if self.inner.is_processing.load(Ordering::SeqCst)
\* { return kResultOk; }`
SetParamRead(id, value) ==
    /\ setter.pc = "idle"
    /\ IF is_processing
       THEN /\ call' = [NoCall EXCEPT !.name = "set_param_normalized",
                                      !.deferred = TRUE,
                                      !.poke = <<id, value>>]
            /\ UNCHANGED setter
       ELSE /\ setter' = [pc |-> "write", id |-> id, value |-> value]
            /\ UNCHANGED call
    /\ UNCHANGED <<current_bus_config, current_buffer_config, is_processing,
                   last_process_status, bypass_state, params, fields, stream>>
    /\ UNCHANGED <<buffer_vars, output_ptrs, midi_vars, util_call, vu>>

\* set_param_normalized: the load of current_buffer_config and
\* set_normalized_value_by_hash, after which the call returns
SetParamWrite ==
    /\ setter.pc = "write"
    /\ IF setter.id = BYPASS_PARAM_ID
       THEN bypass_state' = (setter.value.v > Half.v) /\ UNCHANGED params
       ELSE /\ params' = set_normalized_value_by_hash(
                             params, setter.id, setter.value, current_buffer_config)
            /\ UNCHANGED bypass_state
    /\ call' = [NoCall EXCEPT !.name = "set_param_normalized",
                              !.poke = <<setter.id, setter.value>>]
    /\ setter' = NoSetter
    /\ UNCHANGED <<current_bus_config, current_buffer_config, is_processing,
                   last_process_status, fields, stream>>
    /\ UNCHANGED <<buffer_vars, output_ptrs, midi_vars, util_call, vu>>

NextParam ==
    \/ \E max_samples_per_block \in MaxBlockSizes :
           /\ ~Blocked("setup_processing")
           /\ setter.pc = "idle"
           /\ SetupProcessing(host_sample_rate, max_samples_per_block, TRUE)
           /\ UNCHANGED <<smoother_vars, caller_vars, race_vars, in_flight>>
    \/ \E state \in TBools :
           /\ SetProcessing(state)
           /\ UNCHANGED <<smoother_vars, caller_vars, race_vars, in_flight>>
    \/ \E id \in ParamIds \cup {BYPASS_PARAM_ID}, value \in NormalizedValues :
           /\ SetParamRead(id, value)
           /\ UNCHANGED <<smoother_vars, caller_vars, race_vars, in_flight>>
    \/ SetParamWrite /\ UNCHANGED <<smoother_vars, caller_vars, race_vars, in_flight>>
    \/ \E num_samples \in BlockSizes :
           /\ is_processing
           /\ ProcessDispatch(
                  BlockData(<<>>, current_bus_config.num_output_channels,
                            num_samples), Normal)
           /\ UNCHANGED <<smoother_vars, caller_vars, race_vars>>
    \/ ProcessReturn /\ UNCHANGED <<smoother_vars, caller_vars, race_vars>>

SpecParam == InitSpecAdapter /\ [][NextParam]_vars

\* C39: in every interleaving, set_param_normalized does not write a parameter
\* value, a smoother or the bypass state while the plugin's process is in
\* flight.
C39_Claim ==
    [][(setter.pc = "write" /\ setter'.pc = "idle") => ~in_flight]_vars

(***************************************************************************)
(* The Vu plugin's initialize and process hooks (SpecVu), called as the    *)
(* wrapper calls them: initialize with a bus configuration that            *)
(* accepts_bus_config accepted, process with a buffer of that many         *)
(* channels.  Samples are small whole numbers, so that the sums of squares *)
(* are exact.                                                              *)
(***************************************************************************)
\* The length of Vu's `history` and `new_sums` arrays
VuChannels == 2

\* Sample rates whose windows are one, two and three samples long
VuSampleRates == {7, 14, 20}

\* `(buffer_config.sample_rate as f32 * 0.150) as usize`
WindowLen(sample_rate) == (sample_rate * 150) \div 1000

\* VecDeque::resize(new_len, 0.0)
Resize(history, new_len) ==
    [i \in 1..new_len |-> IF i <= Len(history) THEN history[i] ELSE 0]

\* One pass of the loop body of Vu::process over a channel: the last
\* min(buf_size, history.len()) samples of the channel replace the oldest
\* samples of the history
PushSlice(history, channel) ==
    LET buf_size == Len(channel)
        size_of_slice_to_push == Min(buf_size, Len(history))
        slice == SubSeq(channel, buf_size - size_of_slice_to_push + 1, buf_size)
        rotated == SubSeq(history, size_of_slice_to_push + 1, Len(history))
                       \o SubSeq(history, 1, size_of_slice_to_push)
        kept == SubSeq(rotated, 1, Len(rotated) - size_of_slice_to_push)
    IN  kept \o slice

\* `history.iter().map(|x| x.powf(2.0)).sum::<f32>()`
RECURSIVE SumOfSquares(_)
SumOfSquares(history) ==
    IF history = <<>> THEN 0
    ELSE Head(history) * Head(history) + SumOfSquares(Tail(history))

\* Vu::initialize
VuInitialize(bus_config, buffer_config) ==
    /\ ~vu.panicked
    /\ accepts_bus_config(bus_config)
    /\ LET window_len == WindowLen(buffer_config.sample_rate)
       IN  vu' = [vu EXCEPT
                    !.history = [i \in 1..VuChannels |-> Resize(@[i], window_len)],
                    !.hook = "initialize",
                    !.channels = bus_config.num_output_channels,
                    !.window_len = window_len]
    /\ UNCHANGED <<current_bus_config, current_buffer_config, is_processing,
                   last_process_status, bypass_state, params, fields, stream,
                   call, output_ptrs, midi_vars, in_flight, util_call, setter>>
    /\ UNCHANGED <<smoother_vars, caller_vars, race_vars, buffer_vars>>

\* Vu::process on a buffer of channels: `self.history[chan_idx]` panics for the
\* first channel index outside the array, after the channels before it were
\* pushed and before `self.sums.store(..)`
VuProcess(channels) ==
    /\ ~vu.panicked
    /\ vu.hook # "default"
    /\ LET in_bounds == Min(Len(channels), VuChannels)
           history == [i \in 1..VuChannels |->
                          IF i <= in_bounds THEN PushSlice(vu.history[i], channels[i])
                          ELSE vu.history[i]]
           new_sums == [i \in 1..VuChannels |->
                           IF i <= in_bounds THEN SumOfSquares(history[i]) ELSE 0]
           out_of_bounds == Len(channels) > VuChannels
       IN  vu' = [vu EXCEPT
                    !.history = history,
                    !.history_len = Len(history[in_bounds]),
                    !.sums = IF out_of_bounds THEN @ ELSE new_sums,
                    !.hook = "process",
                    !.panicked = out_of_bounds]
    /\ UNCHANGED <<current_bus_config, current_buffer_config, is_processing,
                   last_process_status, bypass_state, params, fields, stream,
                   call, output_ptrs, midi_vars, in_flight, util_call, setter>>
    /\ UNCHANGED <<smoother_vars, caller_vars, race_vars, buffer_vars>>

\* The blocks of the host: channel c carries c times a wave of zeros and ones
Waves == SeqsUpTo({0, 1}, MaxSamples) \ {<<>>}
VuBlock(n, wave) == [c \in 1..n |-> [i \in 1..Len(wave) |-> c * wave[i]]]

NextVu ==
    \/ \E n \in 1..MaxChannels, sample_rate \in VuSampleRates,
          max_buffer_size \in MaxBlockSizes :
           VuInitialize(BusConfig(n, n), BufferConfig(sample_rate, max_buffer_size))
    \/ \E wave \in Waves : VuProcess(VuBlock(vu.channels, wave))

SpecVu == InitSpecAdapter /\ [][NextVu]_vars

\* C40: for every bus configuration accepts_bus_config accepts, Vu's process
\* handles a block of that many channels without indexing outside its
\* two-element history and sums arrays, and each channel's history keeps the
\* length of the window initialize set.
C40_Claim ==
    /\ ~vu.panicked
    /\ vu.hook # "default" =>
           \A i \in 1..VuChannels : Len(vu.history[i]) = vu.window_len

====
